---- MODULE Spec2Model ----
(***************************************************************************)
(* A model of the shaka-streamer-go orchestrator (package streamer):       *)
(* subprocess nodes (NodeBase), the controller, the cloud upload node,     *)
(* output stream plans with their pipes, the transcoder and packager       *)
(* command lines and the period concatenation node.                        *)
(*                                                                         *)
(* The module holds several specifications over one set of variables.      *)
(* Each specification drives one part of the program and leaves the        *)
(* variables of the other parts at their initial values.                   *)
(***************************************************************************)
EXTENDS Integers, Sequences, FiniteSets, TLC

VARIABLES
  \* ---- NodeBase / ControllerNode (node_base.go, controller_node.go) ----
  Process,      \* per node: nb.Process and its ProcessState field
  osProc,       \* per node: the subprocess as the kernel sees it
  stopPc,       \* per node: position of a running NodeBase.Stop call
  sig,          \* per node: the last signal sent to the process group
  stopped,      \* per node: a Stop call on the started node has returned
  nodes,        \* ControllerNode.nodes
  ctlStopped,   \* ControllerNode.Stop has returned
  \* ---- CloudNode (bitrate_configuration.go:791-970) and the packager's files ----
  periodDir,    \* directory of the packager's manifests below InputDir
  outSegs,      \* segment files in InputDir
  outMan,       \* manifest files in InputDir: path -> content
  tmpMan,       \* manifest copies in TempDir: path -> content
  dstSegs,      \* segment objects at BucketURL
  dstMan,       \* manifest objects at BucketURL: path -> content
  cnStatus,     \* CloudNode.Status
  cnProcess1,   \* CloudNode.Process1
  cnProcess2,   \* CloudNode.Process2
  cnFault,      \* a CloudNode method has ended with a panic
  upPc,         \* position of the running Upload call
  upList,       \* manifestFiles still to capture in this Upload call
  upSeen,       \* manifest files that were in InputDir when this Upload began
  segPass,      \* manifest files transferred by the last segment-sync pass
  nextSeg,      \* number of the next segment the packager writes
  \* ---- inputs, plans and commands ----
  inputs,       \* the inputs of the period
  outputs,      \* the output stream plans built so far, in order
  fifos,        \* the FIFOs in tempDir
  tState,       \* TranscoderNode: new, started, or panic in Start
  tArgs,        \* the command TranscoderNode.Start built
  pState,       \* PackagerNode: new or started
  pArgs,        \* the stream descriptors PackagerNode.Start built
  pnConfig,     \* pipelineConfig of the packager node
  planFault,    \* an output stream constructor has panicked
  \* ---- PeriodConcatNode (periodconcat_node.go) ----
  packagerNodes,    \* per period: the dynamic types of the packager node's OutputStreams
  pkStatus,         \* per period: what CheckStatus of the packager node returns
  pcManifestFormat, \* PeriodConcatNode.pipelineConfig.ManifestFormat
  pcState,          \* none: no PeriodConcatNode yet; made: NewPeriodConcatNode has returned
  concatWillFail,   \* PeriodConcatNode.concatWillFail
  pcStatus,         \* PeriodConcatNode.status
  lastPass,         \* how the last ThreadSinglePass ended
  dashRan,          \* dashConcat has run
  hlsRan,           \* hlsConcat has run
  \* ---- ControllerNode.Start (controller_node.go) ----
  params,           \* the ControllerParams given to Start
  startResult,      \* none, ok when Start has returned, else the panic that ended it
  effects,          \* what Start has done outside the process, in order
  cnPipelineConfig, \* pipelineConfig of the controller that Start returned
  mState,           \* the packager command: new or started
  mArgs,            \* the manifest arguments of the packager command
  tempDirs,         \* the shaka-live- directories that exist, by the controller that owns them
  cnNodes,          \* nodes of the controller made in Start
  closedOn,         \* the controllers on which Close has been called
  secondStart,      \* none, or how a second Start on a started controller ended
  \* ---- functions applied to an argument ----
  arg,              \* the argument
  ret,              \* what the call returned
  called            \* the function that was applied, "" before the call

nodeVars == <<Process, osProc, stopPc, sig, stopped, nodes, ctlStopped>>

cloudVars == <<periodDir, outSegs, outMan, tmpMan, dstSegs, dstMan, cnStatus,
               cnProcess1, cnProcess2, cnFault, upPc, upList, upSeen, segPass,
               nextSeg>>

planVars == <<inputs, outputs, fifos, tState, tArgs, pState, pArgs, pnConfig, planFault>>

concatVars == <<packagerNodes, pkStatus, pcManifestFormat, pcState, concatWillFail,
                pcStatus, lastPass, dashRan, hlsRan>>

ctlVars == <<params, startResult, effects, cnPipelineConfig, mState, mArgs,
             tempDirs, cnNodes, closedOn, secondStart>>

fnVars == <<arg, ret, called>>

vars == <<nodeVars, cloudVars, planVars, concatVars, ctlVars, fnVars>>

\* The variables each part of the program leaves alone.
otherThanNode == <<cloudVars, planVars, concatVars, ctlVars, fnVars>>
otherThanCloud == <<nodeVars, planVars, concatVars, ctlVars, fnVars>>
otherThanPlan == <<nodeVars, cloudVars, concatVars, ctlVars, fnVars>>
otherThanConcat == <<nodeVars, cloudVars, planVars, ctlVars, fnVars>>
otherThanCtl == <<nodeVars, cloudVars, planVars, concatVars, fnVars>>
otherThanFn == <<nodeVars, cloudVars, planVars, concatVars, ctlVars>>

(***************************************************************************)
(* Bounds of the model.                                                    *)
(***************************************************************************)
NumNodes == 2

Nodes == 1..NumNodes

(***************************************************************************)
(* ProcessStatus (node_base.go:16-25).                                     *)
(***************************************************************************)
Finished == "Finished"
Running == "Running"
Errored == "Errored"

(***************************************************************************)
(* NodeBase.                                                               *)
(*                                                                         *)
(* Process[n] is "nil" while nb.Process is nil.  After CreateProcess it    *)
(* holds the value of nb.Process.ProcessState: "nostate" (the field is     *)
(* nil: exec.Cmd sets it in Wait only), "exit0" / "exit1" (a normal exit   *)
(* with code zero / non-zero) or "signaled" (terminated by a signal, for   *)
(* which ProcessState.Exited() is false).                                  *)
(*                                                                         *)
(* osProc[n] is the kernel's view: "none", "running", a zombie that has    *)
(* exited and was not waited for ("zombie0", "zombie1", "zombieSig"), or   *)
(* "reaped".                                                               *)
(***************************************************************************)
ProcessValues == {"nil", "nostate", "exit0", "exit1", "signaled"}
OsValues == {"none", "running", "zombie0", "zombie1", "zombieSig", "reaped"}

\* cmd.Start() in CreateProcess: the subprocess runs in its own process group
\* and nobody waits for it.
CreateProcess(n) ==
  /\ Process[n] = "nil"
  /\ Process' = [Process EXCEPT ![n] = "nostate"]
  /\ osProc' = [osProc EXCEPT ![n] = "running"]
  /\ UNCHANGED <<stopPc, sig, stopped, nodes, ctlStopped>>
  /\ UNCHANGED otherThanNode

\* The subprocess ends by itself (exit code 0 or not), or dies of the
\* SIGTERM it was sent.  Nothing of the Go process changes.
ProcExit(n, how) ==
  /\ osProc[n] = "running"
  /\ how \in {"zombie0", "zombie1", "zombieSig"}
  /\ (how = "zombieSig") => (sig[n] = "TERM")
  /\ osProc' = [osProc EXCEPT ![n] = how]
  /\ UNCHANGED <<Process, stopPc, sig, stopped, nodes, ctlStopped>>
  /\ UNCHANGED otherThanNode

\* NodeBase.CheckStatus on a node whose Process is not nil.
CheckStatus(n) ==
  IF Process[n] \in {"exit0", "exit1"}      \* ProcessState != nil && Exited()
  THEN IF Process[n] = "exit0" THEN Finished ELSE Errored
  ELSE Running

\* syscall.Getpgid(pid) succeeds while the pid exists: running or a zombie.
GetpgidOk(n) == osProc[n] \in {"running", "zombie0", "zombie1", "zombieSig"}

\* The value cmd.Wait() stores in ProcessState for a process found in state os.
WaitStatus(os) ==
  CASE os = "zombie0" -> "exit0"
    [] os = "zombie1" -> "exit1"
    [] OTHER -> "signaled"

\* NodeBase.Stop, first part: nothing for a nil Process, else SIGTERM to the
\* process group.
StopTerm(n) ==
  /\ stopPc[n] = "idle"
  /\ IF Process[n] = "nil"
     THEN UNCHANGED <<stopPc, sig>>
     ELSE /\ stopPc' = [stopPc EXCEPT ![n] = "term"]
          /\ sig' = [sig EXCEPT ![n] = IF GetpgidOk(n) THEN "TERM" ELSE @]
  /\ UNCHANGED <<Process, osProc, stopped, nodes, ctlStopped>>
  /\ UNCHANGED otherThanNode

\* NodeBase.Stop, second part: the first CheckStatus and the one second sleep.
StopGrace(n) ==
  /\ stopPc[n] = "term"
  /\ stopPc' = [stopPc EXCEPT ![n] =
                  IF CheckStatus(n) = Running THEN "slept" ELSE "nosleep"]
  /\ UNCHANGED <<Process, osProc, sig, stopped, nodes, ctlStopped>>
  /\ UNCHANGED otherThanNode

\* A variant of the last part of Stop that sends SIGKILL and does not wait.
StopKillNoWait(n) ==
  /\ stopPc[n] \in {"slept", "nosleep"}
  /\ IF CheckStatus(n) = Running
     THEN /\ sig' = [sig EXCEPT ![n] = IF GetpgidOk(n) THEN "KILL" ELSE @]
          /\ osProc' = [osProc EXCEPT ![n] =
                          IF @ = "running" THEN "zombieSig" ELSE @]
     ELSE UNCHANGED <<sig, osProc>>
  /\ stopPc' = [stopPc EXCEPT ![n] = "idle"]
  /\ stopped' = [stopped EXCEPT ![n] = TRUE]
  /\ UNCHANGED <<Process, nodes, ctlStopped>>
  /\ UNCHANGED otherThanNode

\* NodeBase.Stop, last part: the second CheckStatus, SIGKILL to the process
\* group and Wait, which reaps the subprocess and sets ProcessState.  A second
\* Wait on the same command fails and changes nothing.
StopKill(n) ==
  /\ stopPc[n] \in {"slept", "nosleep"}
  /\ IF CheckStatus(n) = Running
     THEN /\ sig' = [sig EXCEPT ![n] = IF GetpgidOk(n) THEN "KILL" ELSE @]
          /\ IF osProc[n] = "reaped"
             THEN UNCHANGED <<osProc, Process>>
             ELSE /\ osProc' = [osProc EXCEPT ![n] = "reaped"]
                  /\ Process' = [Process EXCEPT ![n] = WaitStatus(osProc[n])]
     ELSE UNCHANGED <<sig, osProc, Process>>
  /\ stopPc' = [stopPc EXCEPT ![n] = "idle"]
  /\ stopped' = [stopped EXCEPT ![n] = TRUE]
  /\ UNCHANGED <<nodes, ctlStopped>>
  /\ UNCHANGED otherThanNode

\* ControllerNode.Stop: the method body is empty.
ControllerStop ==
  /\ ~ctlStopped
  /\ ctlStopped' = TRUE
  /\ UNCHANGED <<Process, osProc, stopPc, sig, stopped, nodes>>
  /\ UNCHANGED otherThanNode

\* The nodes field is empty after Start (appendNodesForInputsList appends
\* nothing) or holds the nodes given in a ControllerNode{nodes: ...} literal.
NodeInit ==
  /\ Process = [n \in Nodes |-> "nil"]
  /\ osProc = [n \in Nodes |-> "none"]
  /\ stopPc = [n \in Nodes |-> "idle"]
  /\ sig = [n \in Nodes |-> "none"]
  /\ stopped = [n \in Nodes |-> FALSE]
  /\ nodes \in {{}, Nodes}
  /\ ctlStopped = FALSE

\* The node part at rest, for the specifications of the other parts.
NodeIdle ==
  /\ Process = [n \in Nodes |-> "nil"]
  /\ osProc = [n \in Nodes |-> "none"]
  /\ stopPc = [n \in Nodes |-> "idle"]
  /\ sig = [n \in Nodes |-> "none"]
  /\ stopped = [n \in Nodes |-> FALSE]
  /\ nodes = {}
  /\ ctlStopped = FALSE

\* Stop has been called on node n (the first Stop on a started node always
\* finds the pid and sends SIGTERM).
StopCalled(n) == sig[n] # "none" \/ stopPc[n] # "idle"

(***************************************************************************)
(* C3: when a tracked node is Errored, ControllerNode.Stop leaves no       *)
(* tracked subprocess running.                                             *)
(***************************************************************************)
C3_StopStopsAll ==
  [][(/\ ~ctlStopped
      /\ ctlStopped'
      /\ \E n \in nodes : Process[n] # "nil" /\ CheckStatus(n) = Errored)
     => \A m \in nodes : osProc'[m] # "running"]_vars

(***************************************************************************)
(* C4: on a started node on which Stop was not called, CheckStatus is      *)
(* Finished once the subprocess exited with 0, Errored once it exited with *)
(* a non-zero code, and Running only while it has not exited.              *)
(***************************************************************************)
C4_StatusTracksExit ==
  \A n \in Nodes :
    (Process[n] # "nil" /\ ~StopCalled(n)) =>
      /\ (osProc[n] = "zombie0") => (CheckStatus(n) = Finished)
      /\ (osProc[n] = "zombie1") => (CheckStatus(n) = Errored)
      /\ (CheckStatus(n) = Running) => (osProc[n] = "running")

(***************************************************************************)
(* C5: Stop sleeps the one second grace and sends SIGKILL only when the    *)
(* subprocess is still running at that point.                              *)
(***************************************************************************)
C5_GraceOnlyIfRunning ==
  [][\A n \in Nodes :
       /\ (stopPc[n] = "term" /\ stopPc'[n] = "slept") => (osProc[n] = "running")
       /\ (sig[n] # "KILL" /\ sig'[n] = "KILL") => (osProc[n] = "running")]_vars

(***************************************************************************)
(* C6: after Stop has returned on a started node, the subprocess has       *)
(* terminated and has been waited for.                                     *)
(***************************************************************************)
C6_StopReaps ==
  \A n \in Nodes : stopped[n] => (osProc[n] = "reaped" /\ Process[n] \notin {"nil", "nostate"})

\* Stop has returned on a node whose subprocess had exited with code 0.
C6_Witness ==
  \E n \in Nodes : stopped[n] /\ Process[n] = "exit0" /\ osProc[n] = "reaped"

(***************************************************************************)
(* CloudNode and the files it mirrors.                                     *)
(*                                                                         *)
(* A file below InputDir is named by the directories that lead to it from  *)
(* InputDir and by the stem and the extension of its base name.  The       *)
(* packager writes dash.mpd and hls.m3u8 (configuration.go:482-485) into   *)
(* periodDir: InputDir itself for a single-period run, period_<i> for a    *)
(* multi-period run (controller_node.go:201-216).                          *)
(***************************************************************************)
MaxSeg == 2

File(dir, stem, ext) == [dir |-> dir, stem |-> stem, ext |-> ext]

PeriodDirs == {<<>>, <<"period_1">>}

DashOutput(dir) == File(dir, "dash", "mpd")
HlsOutput(dir) == File(dir, "hls", "m3u8")

ManifestFiles ==
  {DashOutput(d) : d \in PeriodDirs} \cup {HlsOutput(d) : d \in PeriodDirs}

\* The content of a manifest file: no such file, a file of no bytes, or a
\* manifest that references the segments refs (a master playlist references
\* no segment).
Absent == [k |-> "absent", refs |-> {}]
Empty == [k |-> "empty", refs |-> {}]
Data(refs) == [k |-> "data", refs |-> refs]

RECURSIVE SetToSeq(_)
\* The elements of a set in the one order the model gives them.
SetToSeq(S) ==
  IF S = {} THEN <<>>
  ELSE LET x == CHOOSE y \in S : TRUE IN <<x>> \o SetToSeq(S \ {x})

\* The number of directory elements of the pattern InputDir/**/*.ext: Go's
\* filepath.Match has no recursive "**", which matches as "*" does, exactly
\* one path element.
GlobDirs == 1

\* filepath.Glob(filepath.Join(cn.InputDir, "**/*." + ext)).
Glob(ext) ==
  {f \in ManifestFiles :
     outMan[f].k # "absent" /\ Len(f.dir) = GlobDirs /\ f.ext = ext}

\* The -x patterns of the segment-sync pass: ".*m3u8" and ".*mpd".
Excluded(f) == f.ext \in {"m3u8", "mpd"}

\* NewCloudNode: Status is Finished and no sync command has been made.
CloudInit ==
  /\ periodDir \in PeriodDirs
  /\ outSegs = {}
  /\ outMan = [f \in ManifestFiles |-> Absent]
  /\ tmpMan = [f \in ManifestFiles |-> Absent]
  /\ dstSegs = {}
  /\ dstMan = [f \in ManifestFiles |-> Absent]
  /\ cnStatus = Finished
  /\ cnProcess1 = "nil"
  /\ cnProcess2 = "nil"
  /\ cnFault = FALSE
  /\ upPc = "idle"
  /\ upList = <<>>
  /\ upSeen = {}
  /\ segPass = {}
  /\ nextSeg = 1

\* The cloud part at rest, for the specifications of the other parts.
CloudIdle ==
  /\ periodDir = <<>>
  /\ outSegs = {}
  /\ outMan = [f \in ManifestFiles |-> Absent]
  /\ tmpMan = [f \in ManifestFiles |-> Absent]
  /\ dstSegs = {}
  /\ dstMan = [f \in ManifestFiles |-> Absent]
  /\ cnStatus = Finished
  /\ cnProcess1 = "nil"
  /\ cnProcess2 = "nil"
  /\ cnFault = FALSE
  /\ upPc = "idle"
  /\ upList = <<>>
  /\ upSeen = {}
  /\ segPass = {}
  /\ nextSeg = 1

\* ---- the packager, a process of its own ----

\* The packager writes the next segment file.
PackagerWriteSegment ==
  /\ nextSeg <= MaxSeg
  /\ outSegs' = outSegs \cup {nextSeg}
  /\ nextSeg' = nextSeg + 1
  /\ UNCHANGED <<periodDir, outMan, tmpMan, dstSegs, dstMan, cnStatus, cnProcess1,
                 cnProcess2, cnFault, upPc, upList, upSeen, segPass>>
  /\ UNCHANGED otherThanCloud

\* The packager creates a manifest file, which has no bytes yet.
PackagerCreateManifest(f) ==
  /\ f.dir = periodDir
  /\ outMan[f] = Absent
  /\ outMan' = [outMan EXCEPT ![f] = Empty]
  /\ UNCHANGED <<periodDir, outSegs, tmpMan, dstSegs, dstMan, cnStatus, cnProcess1,
                 cnProcess2, cnFault, upPc, upList, upSeen, segPass, nextSeg>>
  /\ UNCHANGED otherThanCloud

\* The packager writes a version of a manifest.  A version of dash.mpd
\* references the segment files from lo on, all of them written before it.
PackagerWriteManifest(f, lo) ==
  /\ outMan[f] # Absent
  /\ lo \in outSegs
  /\ LET new == IF f.ext = "mpd" THEN Data({s \in outSegs : s >= lo}) ELSE Data({})
     IN /\ outMan[f] # new
        /\ outMan' = [outMan EXCEPT ![f] = new]
  /\ UNCHANGED <<periodDir, outSegs, tmpMan, dstSegs, dstMan, cnStatus, cnProcess1,
                 cnProcess2, cnFault, upPc, upList, upSeen, segPass, nextSeg>>
  /\ UNCHANGED otherThanCloud

\* The packager deletes a segment that has left the live window: one that no
\* manifest in InputDir references any more.
PackagerDeleteSegment(s) ==
  /\ s \in outSegs
  /\ \A f \in ManifestFiles : s \notin outMan[f].refs
  /\ \E f \in ManifestFiles : outMan[f].refs # {}
  /\ outSegs' = outSegs \ {s}
  /\ UNCHANGED <<periodDir, outMan, tmpMan, dstSegs, dstMan, cnStatus, cnProcess1,
                 cnProcess2, cnFault, upPc, upList, upSeen, segPass, nextSeg>>
  /\ UNCHANGED otherThanCloud

\* ---- CloudNode ----

\* CloudNode.Start.
CloudStart ==
  /\ ~cnFault
  /\ cnStatus # Running
  /\ cnStatus' = Running
  /\ UNCHANGED <<periodDir, outSegs, outMan, tmpMan, dstSegs, dstMan, cnProcess1,
                 cnProcess2, cnFault, upPc, upList, upSeen, segPass, nextSeg>>
  /\ UNCHANGED otherThanCloud

\* What Process.Kill() does to a sync command.
Killed(p) == IF p = "running" THEN "killed" ELSE p

\* CloudNode.Stop: Status becomes Finished, then Process1.Process.Kill() and
\* Process2.Process.Kill(); with a nil Process1 or Process2 the call fails
\* with a nil pointer dereference.
CloudStop ==
  /\ ~cnFault
  /\ cnStatus' = Finished
  /\ IF cnProcess1 = "nil"
     THEN cnFault' = TRUE /\ UNCHANGED <<cnProcess1, cnProcess2>>
     ELSE /\ cnProcess1' = Killed(cnProcess1)
          /\ IF cnProcess2 = "nil"
             THEN cnFault' = TRUE /\ UNCHANGED cnProcess2
             ELSE cnProcess2' = Killed(cnProcess2) /\ UNCHANGED cnFault
  /\ UNCHANGED <<periodDir, outSegs, outMan, tmpMan, dstSegs, dstMan,
                 upPc, upList, upSeen, segPass, nextSeg>>
  /\ UNCHANGED otherThanCloud

\* Upload, lines 858-872: the two Globs.
UploadGlob ==
  /\ ~cnFault
  /\ upPc = "idle"
  /\ upList' = SetToSeq(Glob("mpd")) \o SetToSeq(Glob("m3u8"))
  /\ upSeen' = {f \in ManifestFiles : outMan[f].k # "absent"}
  /\ upPc' = "capture"
  /\ UNCHANGED <<periodDir, outSegs, outMan, tmpMan, dstSegs, dstMan, cnStatus,
                 cnProcess1, cnProcess2, cnFault, segPass, nextSeg>>
  /\ UNCHANGED otherThanCloud

\* A loop at lines 890-893 that never waits.
WaitsNever(contents) == FALSE

\* Lines 890-893: Upload reads the manifest again, 100 ms later, while it has
\* no bytes and the node is Running.
Waits(contents) == contents.k # "data" /\ cnStatus = Running

\* Upload, lines 879-914, for one manifest: read it, again every 100 ms while
\* it has no bytes and the node is Running, then write the temp copy.  A read
\* that fails ends Upload with a panic.
UploadCapture ==
  /\ ~cnFault
  /\ upPc = "capture"
  /\ upList # <<>>
  /\ LET f == Head(upList)
         contents == outMan[f]
     IN /\ ~Waits(contents)
        /\ IF contents.k = "absent"
           THEN cnFault' = TRUE /\ UNCHANGED <<tmpMan, upList>>
           ELSE /\ tmpMan' = [tmpMan EXCEPT ![f] = contents]
                /\ upList' = Tail(upList)
                /\ UNCHANGED cnFault
  /\ UNCHANGED <<periodDir, outSegs, outMan, dstSegs, dstMan, cnStatus,
                 cnProcess1, cnProcess2, upPc, upSeen, segPass, nextSeg>>
  /\ UNCHANGED otherThanCloud

\* Upload, lines 917-929: the segment-sync command is made and started.
SegmentSyncStart ==
  /\ ~cnFault
  /\ upPc = "capture"
  /\ upList = <<>>
  /\ cnProcess1' = "running"
  /\ upPc' = "segrun"
  /\ UNCHANGED <<periodDir, outSegs, outMan, tmpMan, dstSegs, dstMan, cnStatus,
                 cnProcess2, cnFault, upList, upSeen, segPass, nextSeg>>
  /\ UNCHANGED otherThanCloud

\* The segment-sync pass ends: rsync -d -x has mirrored InputDir, but for the
\* excluded files, to the destination.  A killed command ends Upload with a
\* panic.
SegmentSyncEnd ==
  /\ ~cnFault
  /\ upPc = "segrun"
  /\ IF cnProcess1 = "killed"
     THEN cnFault' = TRUE /\ UNCHANGED <<dstSegs, dstMan, segPass, cnProcess1, upPc>>
     ELSE /\ dstSegs' = outSegs
          /\ dstMan' = [f \in ManifestFiles |->
                          IF Excluded(f) THEN dstMan[f] ELSE outMan[f]]
          /\ segPass' = {f \in ManifestFiles : ~Excluded(f) /\ outMan[f].k # "absent"}
          /\ cnProcess1' = "done"
          /\ upPc' = "segdone"
          /\ UNCHANGED cnFault
  /\ UNCHANGED <<periodDir, outSegs, outMan, tmpMan, cnStatus,
                 cnProcess2, upList, upSeen, nextSeg>>
  /\ UNCHANGED otherThanCloud

\* Upload, lines 935-951: the manifest-sync command is made and started.
ManifestSyncStart ==
  /\ ~cnFault
  /\ upPc = "segdone"
  /\ cnProcess2' = "running"
  /\ upPc' = "manrun"
  /\ UNCHANGED <<periodDir, outSegs, outMan, tmpMan, dstSegs, dstMan, cnStatus,
                 cnProcess1, cnFault, upList, upSeen, segPass, nextSeg>>
  /\ UNCHANGED otherThanCloud

\* The manifest-sync pass ends: rsync has copied TempDir to the destination.
ManifestSyncEnd ==
  /\ ~cnFault
  /\ upPc = "manrun"
  /\ IF cnProcess2 = "killed"
     THEN cnFault' = TRUE /\ UNCHANGED <<dstMan, cnProcess2, upPc>>
     ELSE /\ dstMan' = [f \in ManifestFiles |->
                          IF tmpMan[f].k # "absent" THEN tmpMan[f] ELSE dstMan[f]]
          /\ cnProcess2' = "done"
          /\ upPc' = "idle"
          /\ UNCHANGED cnFault
  /\ UNCHANGED <<periodDir, outSegs, outMan, tmpMan, dstSegs, cnStatus,
                 cnProcess1, upList, upSeen, segPass, nextSeg>>
  /\ UNCHANGED otherThanCloud

(***************************************************************************)
(* C1: every manifest version at the destination references only segments  *)
(* that are at the destination at that moment.                             *)
(***************************************************************************)
C1_ManifestRefsPresent ==
  \A f \in ManifestFiles : dstMan[f].refs \subseteq dstSegs

(***************************************************************************)
(* C2: in every Upload, each manifest file under the output directory, its *)
(* root included, is kept out of the segment-sync pass and has a captured  *)
(* copy in the temp directory the manifest-sync pass transfers.            *)
(***************************************************************************)
C2_ManifestsCaptured ==
  (upPc \in {"segdone", "manrun"}) =>
    \A f \in upSeen : f \notin segPass /\ tmpMan[f].k # "absent"

C24_StopNeverFails ==
  [][CloudStop => (~cnFault' /\ cnStatus' = Finished)]_vars

(***************************************************************************)
(* Inputs, output stream plans and their pipes; the commands that          *)
(* TranscoderNode.Start and PackagerNode.Start build from them.            *)
(*                                                                         *)
(* A string that is a path is the sequence of its parts: <<>> is "", an    *)
(* input file is <<Name>>, and filepath.Join(tempDir, uuid + suffix) is    *)
(* <<tempDir, uuid, suffix>>.  Of an Input the fields Name, TrackNum and   *)
(* MediaType, Language, SkipEncryption and DrmLabel are kept; the others   *)
(* have their zero values (input_type file, no extra_input_args,           *)
(* start_time or end_time).  A file name is the sequence of the pieces of  *)
(* its template, a piece being a text or one {placeholder}.                *)
(***************************************************************************)
MaxInputs == 2
MaxPlans == 2

AUDIO == "audio"
VIDEO == "video"
TEXT == "text"

Names == {"a.mp4", "b.mp4"}
TrackNums == {0, 1}
Uuids == {"uuid-1", "uuid-2"}

\* The inputs of the transcoder's command: language, skip_encryption and
\* drm_label are not given.
Inputs ==
  [Name : Names, TrackNum : TrackNums, MediaType : {AUDIO, VIDEO, TEXT},
   Language : {""}, SkipEncryption : {0}, DrmLabel : {""}]

\* The inputs of the packager's descriptors: one track of one file.
StreamInputs ==
  [Name : {"a.mp4"}, TrackNum : {0}, MediaType : {AUDIO, VIDEO, TEXT},
   Language : {"", "und", "en"}, SkipEncryption : {0, 1}, DrmLabel : {"", "key"}]

AAC == "aac"
OPUS == "opus"
AC3 == "ac3"
EAC3 == "eac3"
H264 == "h264"
VP9 == "vp9"
AV1 == "av1"
HEVC == "hevc"

\* A Codec interface value: nil, an *AudioCodec or a *VideoCodec.
NilCodec == [type |-> "nil", Name |-> "", HWAcc |-> FALSE]
NewAudioCodec(name) == [type |-> "AudioCodec", Name |-> name, HWAcc |-> FALSE]

\* NewVideoCodec: a name with the prefix hw: asks for a hardware encoder.
NewVideoCodec(name) ==
  [type |-> "VideoCodec", Name |-> name, HWAcc |-> name \in {"hw:h264", "hw:vp9"}]

AudioCodecs == {NewAudioCodec(n) : n \in {AAC, OPUS, AC3, EAC3}}
VideoCodecs == {NewVideoCodec(n) : n \in {H264, VP9, AV1, HEVC, "hw:vp9"}}

\* The defaults of audio_codecs and video_codecs.
DefaultAudioCodecs == {NewAudioCodec(AAC)}
DefaultVideoCodecs == {NewVideoCodec(H264)}

\* AudioCodec.GetOutputFormat and VideoCodec.GetOutputFormat: the format, or
\* "panic" for a name without a mapping.
GetOutputFormat(c) ==
  IF c.type = "AudioCodec"
  THEN (IF c.Name = OPUS THEN "webm"
        ELSE IF c.Name \in {AAC, AC3, EAC3} THEN "mp4" ELSE "panic")
  ELSE (IF c.Name = VP9 THEN "webm"
        ELSE IF c.Name \in {H264, HEVC, AV1} THEN "mp4" ELSE "panic")

\* Two of DefaultAudioChannelLayouts, and a layout without a bitrate for Opus.
AudioChannelLayouts ==
  {[MaxChannels |-> 2,
    Bitrates |-> [n \in {AAC, OPUS, AC3, EAC3} |->
                    CASE n = AAC -> "128k" [] n = OPUS -> "64k"
                      [] n = AC3 -> "192k" [] OTHER -> "96k"]],
   [MaxChannels |-> 6, Bitrates |-> [n \in {AAC} |-> "256k"]]}

\* Two of DefaultVideoResolutions, under their names.
VideoResolutions ==
  {[Name |-> "720p", MaxWidth |-> 1280, MaxHeight |-> 720,
    Bitrates |-> [n \in {H264, VP9, HEVC, AV1} |->
                    CASE n = H264 -> "2M" [] n = AV1 -> "512k" [] OTHER -> "1M"]],
   [Name |-> "1080p", MaxWidth |-> 1920, MaxHeight |-> 1080,
    Bitrates |-> [n \in {H264, VP9, HEVC, AV1} |->
                    CASE n = H264 -> "4M" [] n = AV1 -> "850k" [] OTHER -> "2M"]]}

\* The layout and the resolution of the inputs of the transcoder's command.
PlanChannelLayouts == {l \in AudioChannelLayouts : l.MaxChannels = 2}
PlanResolutions == {r \in VideoResolutions : r.Name = "720p"}

\* A map read m[k]: the zero value for a key that is not in the map.
MapGet(mp, k) == IF k \in DOMAIN mp THEN mp[k] ELSE ""

\* runtime.GOOS of the build: the package builds for POSIX hosts only
\* (syscall.Mkfifo, Setpgid).
GOOS == "linux"

TempDir == "shaka-live-"

\* NewPipe: a non-functioning pipe.
NewPipe == [readPipeName |-> <<>>, writePipeName |-> <<>>]

\* Pipe.ReadEnd: the path a reader process reads from.
ReadEnd(p) == p.writePipeName

\* Pipe.WriteEnd: the path a writer process writes to.
WriteEnd(p) == p.readPipeName

\* Pipe.CreateFilePipe.
CreateFilePipe(p, path, mode) ==
  IF mode = "w" THEN [p EXCEPT !.readPipeName = path]
  ELSE [p EXCEPT !.writePipeName = path]

\* A CreateIpcPipe without Mkfifo's refusal of a path that exists.
CreateIpcPipeNoMkfifo(p, tempDir, suffix, u, fifoSet) ==
  LET pipeName == <<tempDir, u, suffix>>
  IN [ok |-> TRUE,
      made |-> {pipeName},
      pipe |-> [readPipeName |-> pipeName, writePipeName |-> pipeName]]

\* Pipe.CreateIpcPipe where uuid.New() gives u and the FIFOs fifoSet exist:
\* the pipe, and whether Mkfifo succeeds (it fails on a path that exists).
CreateIpcPipe(p, tempDir, suffix, u, fifoSet) ==
  IF GOOS = "windows"
  THEN [ok |-> TRUE, made |-> {}, pipe |-> p]
  ELSE LET pipeName == <<tempDir, u, suffix>>
       IN [ok |-> pipeName \notin fifoSet,
           made |-> {pipeName},
           pipe |-> [readPipeName |-> pipeName, writePipeName |-> pipeName]]

\* NewOutputStream followed by the assignment of Features and the wrapping in
\* *AudioOutputStream, *VideoOutputStream or *TextOutputStream (kind): the
\* plan is appended to the outputs, or the constructor panics.
NewOutputStream(t, in, c, features, skipTranscoding, pipeSuffix, u) ==
  IF skipTranscoding
  THEN /\ outputs' = Append(outputs,
                       [kind |-> t, Type |-> t, Input |-> in, SkipTranscoding |-> TRUE,
                        Features |-> features, Codec |-> c,
                        ipcPipe |-> CreateFilePipe(NewPipe, <<in.Name>>, "r")])
       /\ UNCHANGED <<fifos, planFault>>
  ELSE LET r == CreateIpcPipe(NewPipe, TempDir, pipeSuffix, u, fifos)
       IN IF r.ok
          THEN /\ outputs' = Append(outputs,
                               [kind |-> t, Type |-> t, Input |-> in,
                                SkipTranscoding |-> FALSE, Features |-> features,
                                Codec |-> c, ipcPipe |-> r.pipe])
               /\ fifos' = fifos \cup r.made
               /\ UNCHANGED planFault
          ELSE /\ planFault' = TRUE
               /\ UNCHANGED <<outputs, fifos>>

\* Plans are built before the nodes that use them are started.
Building ==
  /\ ~planFault
  /\ tState = "new"
  /\ pState = "new"
  /\ Len(outputs) < MaxPlans

\* The features that make the name of a text plan's files.
TextFeaturesNoFormat(i) == [language |-> i.Language]

TextFeatures(i) == [language |-> i.Language, format |-> "mp4"]

\* A constructor panics in GetOutputFormat before it makes a pipe.
ConstructorPanics ==
  /\ planFault' = TRUE
  /\ UNCHANGED <<outputs, fifos>>

NewAudioOutputStream(i, c, l, u) ==
  /\ Building
  /\ inputs[i].MediaType = AUDIO
  /\ IF GetOutputFormat(c) = "panic" THEN ConstructorPanics
     ELSE NewOutputStream(AUDIO, inputs[i], c,
                          [language |-> inputs[i].Language,
                           channels |-> ToString(l.MaxChannels),
                           bitrate |-> MapGet(l.Bitrates, c.Name),
                           format |-> GetOutputFormat(c),
                           codec |-> c.Name],
                          FALSE, "", u)
  /\ UNCHANGED <<inputs, tState, tArgs, pState, pArgs, pnConfig>>
  /\ UNCHANGED otherThanPlan

NewVideoOutputStream(i, c, r, u) ==
  /\ Building
  /\ inputs[i].MediaType = VIDEO
  /\ IF GetOutputFormat(c) = "panic" THEN ConstructorPanics
     ELSE NewOutputStream(VIDEO, inputs[i], c,
                          [resolution_name |-> r.Name,
                           bitrate |-> MapGet(r.Bitrates, c.Name),
                           format |-> GetOutputFormat(c),
                           codec |-> c.Name],
                          FALSE, "", u)
  /\ UNCHANGED <<inputs, tState, tArgs, pState, pArgs, pnConfig>>
  /\ UNCHANGED otherThanPlan

NewTextOutputStream(i, skipTranscoding, u) ==
  /\ Building
  /\ inputs[i].MediaType = TEXT
  /\ NewOutputStream(TEXT, inputs[i], NilCodec, TextFeatures(inputs[i]), skipTranscoding,
                     ".vtt", u)
  /\ UNCHANGED <<inputs, tState, tArgs, pState, pArgs, pnConfig>>
  /\ UNCHANGED otherThanPlan

\* ---- TranscoderNode.Start ----

\* One token of a command: its kind t ("opt" for an option or its value,
\* "-i", "name", "-map", "spec", "out"), and what it holds.
Tok(t, i, n, s) == [t |-> t, i |-> i, n |-> n, s |-> s]
Opt(s) == Tok("opt", 0, 0, <<s>>)

\* Input.GetStreamSpecifier, after the input file number i: "i:v:n".
GetStreamSpecifier(i, in) ==
  Tok("spec", i, in.TrackNum,
      <<CASE in.MediaType = VIDEO -> "v" [] in.MediaType = AUDIO -> "a" [] OTHER -> "s">>)

RECURSIVE InputLoop(_)
\* Lines 63-116, from input k on: the input's options, then "-i", Name.
InputLoop(k) ==
  IF k > Len(inputs) THEN <<>>
  ELSE <<Tok("-i", 0, 0, <<>>), Tok("name", 0, 0, <<inputs[k].Name>>)>> \o InputLoop(k + 1)

\* Line 131: the stream is not skipped for this input.
MatchesInput(stream, in) ==
  ~(stream.Input.TrackNum # in.TrackNum /\ stream.Input.Name # in.Name)

\* Lines 144-154: the type assertion by the input's media type gives nil for
\* a stream of another type; encodeAudio and encodeVideo dereference it.
NilDereference(stream, in) ==
  in.MediaType \in {AUDIO, VIDEO} /\ stream.kind # in.MediaType

\* encodeAudio, encodeVideo, encodeText: the first options of each.
Encode(in) ==
  CASE in.MediaType = AUDIO -> <<Opt("-vn"), Opt("-f"), Opt("mp4")>>
    [] in.MediaType = VIDEO -> <<Opt("-an"), Opt("-f"), Opt("mp4")>>
    [] OTHER -> <<Opt("-f"), Opt("webvtt")>>

\* Lines 128-157 for input number k (from 1) and one stream.
StreamArgs(k, stream) ==
  IF ~MatchesInput(stream, inputs[k]) \/ stream.SkipTranscoding THEN <<>>
  ELSE <<Tok("-map", 0, 0, <<>>), GetStreamSpecifier(k - 1, inputs[k])>>
       \o Encode(inputs[k])
       \o <<Tok("out", 0, 0, WriteEnd(stream.ipcPipe))>>

RECURSIVE StreamLoop(_, _)
StreamLoop(k, j) ==
  IF j > Len(outputs) THEN <<>>
  ELSE StreamArgs(k, outputs[j]) \o StreamLoop(k, j + 1)

RECURSIVE MapLoop(_)
\* Lines 118-159, from input k on.
MapLoop(k) ==
  IF k > Len(inputs) THEN <<>>
  ELSE StreamLoop(k, 1) \o MapLoop(k + 1)

\* The values of hwaccel_api: the defaults of Linux and macOS, and none.
HWAccelAPIs == {"vaapi", "videotoolbox", ""}

\* A VideoCodec with a name that has an output format and with HWAcc set.
HardwareCodecs == {[type |-> "VideoCodec", Name |-> H264, HWAcc |-> TRUE]}

\* OutputStream.IsHardwareAccelerated.
IsHardwareAccelerated(o) == o.Codec.type # "nil" /\ o.Codec.HWAcc

RECURSIVE VaapiLoop(_, _)
\* Lines 53-61, from output j on.
VaapiLoop(hwaccelApi, j) ==
  IF j > Len(outputs) THEN <<>>
  ELSE (IF IsHardwareAccelerated(outputs[j]) /\ hwaccelApi = "vaapi"
        THEN <<Opt("-vaapi_device"), Opt("/dev/dri/renderD128")>>
        ELSE <<>>)
       \o VaapiLoop(hwaccelApi, j + 1)

\* TranscoderNode.Start with pipelineConfig.HWAccelAPI = hwaccelApi: the
\* command, or a panic.
TranscoderStart(hwaccelApi) ==
  /\ ~planFault
  /\ tState = "new"
  /\ IF \E k \in DOMAIN inputs : \E j \in DOMAIN outputs :
          /\ MatchesInput(outputs[j], inputs[k])
          /\ ~outputs[j].SkipTranscoding
          /\ NilDereference(outputs[j], inputs[k])
     THEN tState' = "panic" /\ UNCHANGED tArgs
     ELSE /\ tState' = "started"
          /\ tArgs' = <<Opt("ffmpeg"), Opt("-y")>> \o VaapiLoop(hwaccelApi, 1)
                        \o InputLoop(1) \o MapLoop(1)
  /\ UNCHANGED <<inputs, outputs, fifos, pState, pArgs, pnConfig, planFault>>
  /\ UNCHANGED otherThanPlan

\* ---- PackagerNode.Start ----

\* OutputStream.IsDashOnly.
IsDashOnly(o) == o.Codec.type # "nil" /\ GetOutputFormat(o.Codec) = "webm"

\* The {placeholder} of a feature.
Placeholder(key) == "{" \o key \o "}"

\* strings.ReplaceAll on the pieces of a template.
ReplaceAll(templ, old, new) ==
  [k \in DOMAIN templ |-> IF templ[k] = old THEN new ELSE templ[k]]

RECURSIVE RangeFeatures(_, _, _)
\* for key, value := range o.Features, over the keys left.  The values hold
\* no brace, so the order of the map's keys does not show.
RangeFeatures(templ, features, keys) ==
  IF keys = {} THEN templ
  ELSE LET key == CHOOSE k \in keys : TRUE
       IN RangeFeatures(ReplaceAll(templ, Placeholder(key), features[key]),
                        features, keys \ {key})

\* The templates of the three file names of a media type, which differ in
\* the piece before the format.
SegTemplate(t, suffix) ==
  CASE t = AUDIO -> <<"audio_", "{language}", "_", "{channels}", "c_", "{bitrate}", "_",
                      "{codec}", suffix, "{format}">>
    [] t = VIDEO -> <<"video_", "{resolution_name}", "_", "{bitrate}", "_", "{codec}",
                      suffix, "{format}">>
    [] OTHER -> <<"text_", "{language}", suffix, "{format}">>

\* The three getters: the template of o.Type with the features filled in.
SegFile(o, suffix) ==
  CreateFilePipe(NewPipe,
                 RangeFeatures(SegTemplate(o.Type, suffix), o.Features, DOMAIN o.Features),
                 "w")

GetInitSegFile(o) == SegFile(o, "_init.")
GetMediaSegFile(o) == SegFile(o, "_$Number$.")
GetSingleSegFile(o) == SegFile(o, ".")

\* buildPath for an output location that is a local directory.
buildPath(outputLocation, subPath) ==
  IF subPath = <<>> THEN outputLocation ELSE outputLocation \o subPath

\* NewPackagerNode: the fields setupStream reads.
PackagerNodes ==
  [pipelineConfig : [SegmentPerFile : BOOLEAN], segmentDir : {<<"out/">>}]

\* The nodes of a pipeline config with the default of segment_per_file.
DefaultPackagerNodes == {pn \in PackagerNodes : ~pn.pipelineConfig.SegmentPerFile}

\* The packager node before NewPackagerNode.
NoPackagerNode == [pipelineConfig |-> [SegmentPerFile |-> FALSE], segmentDir |-> <<>>]

\* Lines 131-133 for a language that is "und" as well.
SetsLanguageUnd(input) == input.Language # ""

\* Lines 131-133: the descriptor gets the input's language.
SetsLanguage(input) == input.Language # "" /\ input.Language # "und"

\* setupStream: the dict, before its pairs are joined in the order of the map.
setupStream(pn, stream) ==
  [in |-> ReadEnd(stream.ipcPipe), stream |-> stream.Type]
  @@ (IF stream.Input.SkipEncryption > 0
      THEN [skip_encryption |-> ToString(stream.Input.SkipEncryption)] ELSE <<>>)
  @@ (IF stream.Input.DrmLabel # "" THEN [drm_label |-> stream.Input.DrmLabel] ELSE <<>>)
  @@ (IF SetsLanguage(stream.Input) THEN [language |-> stream.Input.Language] ELSE <<>>)
  @@ (IF pn.pipelineConfig.SegmentPerFile
      THEN [init_segment |-> buildPath(pn.segmentDir, WriteEnd(GetInitSegFile(stream))),
            segment_template |->
              buildPath(pn.segmentDir, WriteEnd(GetMediaSegFile(stream)))]
      ELSE [output |-> buildPath(pn.segmentDir, WriteEnd(GetSingleSegFile(stream)))])
  @@ (IF IsDashOnly(stream) THEN [dash_only |-> "1"] ELSE <<>>)

\* NewPackagerNode and PackagerNode.Start: one descriptor per output
\* stream, in order.
PackagerStart(pn) ==
  /\ ~planFault
  /\ pState = "new"
  /\ pState' = "started"
  /\ pnConfig' = pn
  /\ pArgs' = [j \in DOMAIN outputs |-> setupStream(pn, outputs[j])]
  /\ UNCHANGED <<inputs, outputs, fifos, tState, tArgs, planFault>>
  /\ UNCHANGED otherThanPlan

\* The lists of inputs a run can be given.
InputLists == UNION {[1..n -> Inputs] : n \in 1..MaxInputs}

PlanInit ==
  /\ inputs \in InputLists
  /\ outputs = <<>>
  /\ fifos = {}
  /\ tState = "new"
  /\ tArgs = <<>>
  /\ pState = "new"
  /\ pArgs = <<>>
  /\ pnConfig = NoPackagerNode
  /\ planFault = FALSE

\* The plan part at rest, for the specifications of the other parts.
PlanIdle ==
  /\ inputs = <<>>
  /\ outputs = <<>>
  /\ fifos = {}
  /\ tState = "new"
  /\ tArgs = <<>>
  /\ pState = "new"
  /\ pArgs = <<>>
  /\ pnConfig = NoPackagerNode
  /\ planFault = FALSE

\* The positions of the tokens of kind t in the transcoder's command.
TokensOf(t) == {k \in DOMAIN tArgs : tArgs[k].t = t}

\* The plans that do not skip transcoding.
Transcoded == {j \in DOMAIN outputs : ~outputs[j].SkipTranscoding}

\* No two inputs of the list have the same name and the same track number,
\* so that each plan has one input of the list as its own.
InputsDistinct ==
  \A a, b \in DOMAIN inputs :
    (inputs[a].Name = inputs[b].Name /\ inputs[a].TrackNum = inputs[b].TrackNum)
      => a = b

\* The last stream specifier before position k of the command.
SpecBefore(k) ==
  LET m == CHOOSE x \in TokensOf("spec") :
             x < k /\ \A y \in TokensOf("spec") : y < k => y <= x
  IN tArgs[m]

(***************************************************************************)
(* C7: the command TranscoderNode.Start builds holds one -i per input and, *)
(* per plan that does not skip transcoding, one output token, the plan's   *)
(* WriteEnd, mapped from the plan's own input; also for inputs that share  *)
(* a track number or a name.                                               *)
(***************************************************************************)
C7_OneOutputPerPlan ==
  (tState = "started" /\ InputsDistinct) =>
    /\ Cardinality(TokensOf("-i")) = Len(inputs)
    /\ Cardinality(TokensOf("out")) = Cardinality(Transcoded)
    /\ \A j \in Transcoded :
         \E k \in TokensOf("out") :
           /\ tArgs[k].s = WriteEnd(outputs[j].ipcPipe)
           /\ inputs[SpecBefore(k).i + 1] = outputs[j].Input

C16_DescriptorKeys ==
  (pState = "started") =>
    \A j \in DOMAIN outputs :
      LET keys == DOMAIN pArgs[j]
          o == outputs[j]
      IN /\ {"in", "stream"} \subseteq keys
         /\ ("language" \in keys) <=> (o.Input.Language \notin {"", "und"})
         /\ IF pnConfig.pipelineConfig.SegmentPerFile
            THEN {"init_segment", "segment_template"} \subseteq keys /\ "output" \notin keys
            ELSE "output" \in keys /\ keys \cap {"init_segment", "segment_template"} = {}
         /\ ("dash_only" \in keys /\ pArgs[j].dash_only = "1")
              <=> (o.Codec.type # "nil" /\ GetOutputFormat(o.Codec) = "webm")

\* The descriptor of a WebM plan with a language, with segment_per_file.
C16_Witness ==
  /\ pState = "started"
  /\ \E j \in DOMAIN pArgs :
       {"language", "init_segment", "segment_template", "dash_only"} \subseteq DOMAIN pArgs[j]

\* The {placeholder}s of the templates.
Placeholders ==
  {Placeholder(key) :
     key \in {"language", "channels", "bitrate", "codec", "format", "resolution_name"}}

\* The file name of a plan by its features, with the piece suffix before the
\* format.
NameByFeatures(o, suffix) ==
  LET f == o.Features
  IN CASE o.Type = AUDIO -> <<"audio_", f.language, "_", f.channels, "c_", f.bitrate, "_",
                              f.codec, suffix, f.format>>
       [] o.Type = VIDEO -> <<"video_", f.resolution_name, "_", f.bitrate, "_", f.codec,
                              suffix, f.format>>
       [] OTHER -> <<"text_", f.language, suffix, f.format>>

C27_VaapiDeviceOnce ==
  [][\A api \in HWAccelAPIs :
       (TranscoderStart(api) /\ tState' = "started") =>
         LET at == {k \in DOMAIN tArgs' : tArgs'[k] = Opt("-vaapi_device")}
             hw == \E j \in DOMAIN outputs : IsHardwareAccelerated(outputs[j])
         IN /\ Cardinality(at) = (IF api = "vaapi" /\ hw THEN 1 ELSE 0)
            /\ \A k \in at :
                 /\ tArgs'[k + 1] = Opt("/dev/dri/renderD128")
                 /\ \A m \in DOMAIN tArgs' : (tArgs'[m].t = "-i") => (k < m)]_vars

(***************************************************************************)
(* PeriodConcatNode.                                                       *)
(*                                                                         *)
(* A packager node of a period is given by the output stream plans it was  *)
(* built with.  The constructors return *AudioOutputStream,                *)
(* *VideoOutputStream and *TextOutputStream: the dynamic type of a plan is *)
(* a pointer type.                                                         *)
(***************************************************************************)
MaxPeriods == 2

DASH == "dash"
HLS == "hls"

\* The values of PipelineConfig.ManifestFormat.
ManifestFormats == {<<DASH>>, <<HLS>>, <<DASH, HLS>>}

\* The dynamic type of the plan a constructor returns for a media type.
PointerTo(t) == [pointer |-> TRUE, elem |-> t]

\* The type named in a case of a type switch: VideoOutputStream is the
\* struct type, not the pointer type.
StructType(t) == [pointer |-> FALSE, elem |-> t]

DynamicTypes == {PointerTo(t) : t \in {AUDIO, VIDEO, TEXT}}

\* ContainsString.
ContainsString(arr, val) == \E k \in DOMAIN arr : arr[k] = val

\* ManifestFormatListToStringList: string(manifestFormat) of each element.
ManifestFormatListToStringList(list) == [k \in DOMAIN list |-> list[k]]

\* Lines 20-25 and 32-37: some stream of the node takes the case of type T.
SwitchTakes(streams, T) == \E s \in streams : s = T

\* Lines 17-82: the value of concatWillFail.
ConcatWillFail(pn) ==
  LET fpHasVid == SwitchTakes(pn[1], StructType(VIDEO))
      fpHasAud == SwitchTakes(pn[1], StructType(AUDIO))
  IN \E i \in DOMAIN pn :
       \/ SwitchTakes(pn[i], StructType(VIDEO)) # fpHasVid
       \/ SwitchTakes(pn[i], StructType(AUDIO)) # fpHasAud

\* NewPeriodConcatNode.
NewPeriodConcatNode ==
  /\ pcState = "none"
  /\ pcState' = "made"
  /\ concatWillFail' = ConcatWillFail(packagerNodes)
  /\ UNCHANGED <<packagerNodes, pkStatus, pcManifestFormat, pcStatus, lastPass,
                 dashRan, hlsRan>>
  /\ UNCHANGED otherThanConcat

\* The packager of a period ends: its node's CheckStatus gives st from now.
PackagerEnds(i, st) ==
  /\ pkStatus[i] = Running
  /\ st \in {Finished, Errored}
  /\ pkStatus' = [pkStatus EXCEPT ![i] = st]
  /\ UNCHANGED <<packagerNodes, pcManifestFormat, pcState, concatWillFail, pcStatus,
                 lastPass, dashRan, hlsRan>>
  /\ UNCHANGED otherThanConcat

\* The first packager node, in order, that is not Finished; 0 if none.
FirstUnfinished ==
  IF \A i \in DOMAIN pkStatus : pkStatus[i] = Finished THEN 0
  ELSE CHOOSE i \in DOMAIN pkStatus :
         /\ pkStatus[i] # Finished
         /\ \A k \in 1..(i - 1) : pkStatus[k] = Finished

\* PeriodConcatNode.ThreadSinglePass: what the pass ended with is lastPass.
ThreadSinglePass ==
  /\ pcState = "made"
  /\ lastPass \in {"none", "running"}
  /\ IF FirstUnfinished # 0
     THEN /\ lastPass' = IF pkStatus[FirstUnfinished] = Running
                         THEN "running" ELSE "packager error"
          /\ UNCHANGED <<pcStatus, dashRan, hlsRan>>
     ELSE IF concatWillFail
          THEN /\ lastPass' = "unable to concatenate"
               /\ UNCHANGED <<pcStatus, dashRan, hlsRan>>
          ELSE /\ lastPass' = "concatenated"
               /\ dashRan' = ContainsString(
                               ManifestFormatListToStringList(pcManifestFormat), DASH)
               /\ hlsRan' = ContainsString(
                              ManifestFormatListToStringList(pcManifestFormat), HLS)
               /\ pcStatus' = Finished
  /\ UNCHANGED <<packagerNodes, pkStatus, pcManifestFormat, pcState, concatWillFail>>
  /\ UNCHANGED otherThanConcat

ConcatInit ==
  /\ \E n \in 1..MaxPeriods :
       /\ packagerNodes \in [1..n -> SUBSET DynamicTypes]
       /\ pkStatus = [i \in 1..n |-> Running]
  /\ pcManifestFormat \in ManifestFormats
  /\ pcState = "none"
  /\ concatWillFail = FALSE
  /\ pcStatus = Finished
  /\ lastPass = "none"
  /\ dashRan = FALSE
  /\ hlsRan = FALSE

\* The concatenation part at rest, for the specifications of the other parts.
ConcatIdle ==
  /\ packagerNodes = <<>>
  /\ pkStatus = <<>>
  /\ pcManifestFormat = <<DASH, HLS>>
  /\ pcState = "none"
  /\ concatWillFail = FALSE
  /\ pcStatus = Finished
  /\ lastPass = "none"
  /\ dashRan = FALSE
  /\ hlsRan = FALSE

\* The packager node of period i has a plan of media type t.
HasStream(i, t) == \E s \in packagerNodes[i] : s.elem = t

\* Some period differs from the first in having video or in having audio.
PeriodsDiffer ==
  \E i \in DOMAIN packagerNodes :
    \/ HasStream(i, VIDEO) # HasStream(1, VIDEO)
    \/ HasStream(i, AUDIO) # HasStream(1, AUDIO)

(***************************************************************************)
(* C9: NewPeriodConcatNode sets concatWillFail exactly when some period's  *)
(* packager node differs from the first period's in having a video plan or *)
(* in having an audio plan, and a pass over finished packagers then fails  *)
(* with "Unable to concatenate the inputs." and runs no concatenation.     *)
(***************************************************************************)
C9_FailsIffPeriodsDiffer ==
  (pcState = "made") =>
    /\ concatWillFail <=> PeriodsDiffer
    /\ (lastPass = "unable to concatenate") => (~dashRan /\ ~hlsRan)
    /\ (lastPass = "concatenated") => ~PeriodsDiffer

(***************************************************************************)
(* C21: the status of a PeriodConcatNode is Finished only after a pass     *)
(* that ran the concatenation, which is a pass in which every packager     *)
(* node's status is Finished; a pass that finds a packager node Running    *)
(* leaves the node as it was.                                              *)
(***************************************************************************)
C21_FinishedOnlyAfterConcat ==
  (pcState = "made") =>
    /\ (pcStatus = Finished) => (lastPass = "concatenated")
    /\ (lastPass = "concatenated") => \A i \in DOMAIN pkStatus : pkStatus[i] = Finished
    /\ (lastPass = "running") => (~dashRan /\ ~hlsRan)

(***************************************************************************)
(* C22: every pass of ThreadSinglePass in which some packager node is      *)
(* Errored fails with the error of a packager node, whatever the statuses  *)
(* of the other nodes and wherever the Errored node is in the list.        *)
(***************************************************************************)
C22_ErroredPackagerFailsPass ==
  [][(/\ pcState = "made"
      /\ pcState' = "made"
      /\ pkStatus' = pkStatus
      /\ \E i \in DOMAIN pkStatus : pkStatus[i] = Errored)
       => (lastPass' = "packager error")]_vars

(***************************************************************************)
(* ControllerNode.Start, and the manifest arguments of the packager        *)
(* command built from the pipeline config of the controller it returns.    *)
(*                                                                         *)
(* A location is its URL scheme ("" for a local path), the number of       *)
(* slashes after "scheme:", and the path elements.                         *)
(***************************************************************************)
MaxUtcTimings == 2

LIVE == "live"
VOD == "vod"

Location(scheme, slashes, path) == [scheme |-> scheme, slashes |-> slashes, path |-> path]
NoLocation == Location("", 0, <<>>)

OutputLocations ==
  {Location("", 0, <<"out">>), Location("https", 2, <<"host", "out">>),
   Location("gs", 2, <<"bucket", "out">>)}

\* IsURL: the location begins with "http:" or "https:".
IsURL(l) == l.scheme \in {"http", "https"}

\* filepath.Join(l, file): the joined path is cleaned, which leaves one slash
\* of a run of slashes.
Join(l, file) ==
  Location(l.scheme, IF l.slashes > 1 THEN 1 ELSE l.slashes, l.path \o <<file>>)

\* isUrl: url.Parse gives the location a scheme and a host.
isUrl(l) == l.scheme # "" /\ l.slashes = 2 /\ l.path # <<>>

\* buildPath on an output location and a sub-path that is not empty: the
\* strings joined with "/" for a URL, filepath.Join otherwise.
buildPathLocation(outputLocation, subPath) ==
  IF isUrl(outputLocation)
  THEN Location(outputLocation.scheme, outputLocation.slashes,
                outputLocation.path \o <<subPath>>)
  ELSE Join(outputLocation, subPath)

\* A []UtcTimingPair: a nil slice, or a slice of some pairs.
UtcTimingPair == [SchemeIdUri |-> "urn:mpeg:dash:utc:http-xsdate:2014", Value |-> "https://time"]
UtcTimingLists ==
  {[nil |-> TRUE, elems |-> <<>>]}
    \cup {[nil |-> FALSE, elems |-> [k \in 1..n |-> UtcTimingPair]] : n \in 0..MaxUtcTimings}

PipelineConfigs ==
  [SegmentPerFile : BOOLEAN, LowLatencyDashMode : BOOLEAN,
   ManifestFormat : ManifestFormats, UTCTimings : UtcTimingLists,
   StreamingMode : {LIVE, VOD}]

\* The zero value of PipelineConfig.
ZeroPipelineConfig ==
  [SegmentPerFile |-> FALSE, LowLatencyDashMode |-> FALSE, ManifestFormat |-> <<>>,
   UTCTimings |-> [nil |-> TRUE, elems |-> <<>>], StreamingMode |-> ""]

ControllerParams ==
  [outputLocation : OutputLocations, bucketURL : {"", "gs://bucket"},
   multiPeriod : BOOLEAN, pipelineConfigDict : PipelineConfigs,
   checkDeps : BOOLEAN, useHermetic : BOOLEAN]

ZeroControllerParams ==
  [outputLocation |-> NoLocation, bucketURL |-> "", multiPeriod |-> FALSE,
   pipelineConfigDict |-> ZeroPipelineConfig, checkDeps |-> FALSE, useHermetic |-> FALSE]

\* How Start ends, and the effects it has had outside the process, in order.
Outcome(result, done) == [result |-> result, effects |-> done]

\* A check of the low-latency restrictions that does not look at utc_timings.
LowLatencyCheckNoUtc(pc) ==
  IF pc.LowLatencyDashMode
       /\ ~ContainsString(ManifestFormatListToStringList(pc.ManifestFormat), DASH)
  THEN "low_latency_dash_mode is only compatible with DASH outputs"
  ELSE "ok"

\* Start, lines 185-194.
LowLatencyCheck(pc) ==
  IF ~pc.LowLatencyDashMode THEN "ok"
  ELSE IF ~ContainsString(ManifestFormatListToStringList(pc.ManifestFormat), DASH)
       THEN "low_latency_dash_mode is only compatible with DASH outputs"
       ELSE IF Len(pc.UTCTimings.elems) = 0
            THEN "For low_latency_dash_mode, the utc_timings must be set."
            ELSE "ok"

\* A check of the output location that lets a cloud bucket pass.
OutputCheckNoBucket(p) ==
  IF ~IsURL(p.outputLocation) THEN "ok"
  ELSE IF ~p.pipelineConfigDict.SegmentPerFile
       THEN "For HTTP PUT uploads, the pipeline segment_per_file setting must be set to True!"
       ELSE IF p.multiPeriod
            THEN "Multiperiod input list support is incompatible with HTTP outputs."
            ELSE "ok"

\* Start, lines 159-183.
OutputCheck(p) ==
  IF ~IsURL(p.outputLocation) THEN "ok"
  ELSE IF ~p.pipelineConfigDict.SegmentPerFile
       THEN "For HTTP PUT uploads, the pipeline segment_per_file setting must be set to True!"
       ELSE IF p.bucketURL # ""
            THEN "Cloud bucket upload is incompatible with HTTP PUT support."
            ELSE IF p.multiPeriod
                 THEN "Multiperiod input list support is incompatible with HTTP outputs."
                 ELSE "ok"

\* Start for the receiver's nodes cNodes, where the hermetic binaries are
\* found or not, the tools' versions pass or not, and the bucket can be
\* written to or not.
StartOutcome(p, cNodes, found, versionsOk, accessOk) ==
  IF p.useHermetic /\ ~found THEN Outcome("shaka-streamer-binaries was not found.", <<>>)
  ELSE IF cNodes # {} THEN Outcome("Controller already started!", <<>>)
  ELSE IF p.checkDeps /\ ~versionsOk THEN Outcome("VersionError", <<>>)
  ELSE LET e1 == IF p.bucketURL # "" THEN <<"gsutil cp">> ELSE <<>>
           e2 == e1 \o <<"MkdirTemp">>
           e3 == IF IsURL(p.outputLocation) THEN e2
                 ELSE e2 \o <<"RemoveAll outputLocation", "MkdirAll outputLocation">>
       IN IF p.bucketURL # "" /\ ~accessOk THEN Outcome("CloudAccessError", e1)
          ELSE IF OutputCheck(p) # "ok" THEN Outcome(OutputCheck(p), e3)
          ELSE Outcome(LowLatencyCheck(p.pipelineConfigDict), e3)

\* ControllerNode.Start.
ControllerStart(found, versionsOk, accessOk) ==
  /\ startResult = "none"
  /\ LET o == StartOutcome(params, nodes, found, versionsOk, accessOk)
     IN /\ startResult' = o.result
        /\ effects' = o.effects
        /\ cnPipelineConfig' = IF o.result = "ok" THEN params.pipelineConfigDict
                               ELSE cnPipelineConfig
        /\ tempDirs' = IF \E k \in DOMAIN o.effects : o.effects[k] = "MkdirTemp"
                       THEN tempDirs \cup {"returned"} ELSE tempDirs
  /\ UNCHANGED <<params, mState, mArgs, cnNodes, closedOn, secondStart>>
  /\ UNCHANGED otherThanCtl

\* ControllerNode.Start called again after a Start that returned, on the
\* receiver of the first call or on the controller the first call returned.
\* len(c.nodes) at line 68 is read from the controller the call is made on.
ControllerStartAgain(c, found, versionsOk, accessOk) ==
  /\ c \in {"receiver", "returned"}
  /\ startResult = "ok"
  /\ secondStart = "none"
  /\ LET o == StartOutcome(params, IF c = "receiver" THEN nodes ELSE cnNodes,
                           found, versionsOk, accessOk)
     IN /\ secondStart' = o.result
        /\ effects' = effects \o o.effects
        /\ tempDirs' = IF \E k \in DOMAIN o.effects : o.effects[k] = "MkdirTemp"
                       THEN tempDirs \cup {"second"} ELSE tempDirs
  /\ UNCHANGED <<params, startResult, cnPipelineConfig, mState, mArgs, cnNodes, closedOn>>
  /\ UNCHANGED otherThanCtl

\* The arguments of a packager command: a word, a comma-joined list of
\* key=value pairs, or a path.
Arg(name) == [name |-> name, pairs |-> <<>>, loc |-> NoLocation]
PairsArg(ps) == [name |-> "", pairs |-> ps, loc |-> NoLocation]
PathArg(l) == [name |-> "", pairs |-> <<>>, loc |-> l]

\* PackagerNode.setupManifestFormat.
setupManifestFormat(pc, outputLocation) ==
  (IF ContainsString(ManifestFormatListToStringList(pc.ManifestFormat), DASH)
   THEN (IF ~pc.UTCTimings.nil
         THEN <<Arg("--utc_timings"),
                PairsArg([k \in DOMAIN pc.UTCTimings.elems |->
                            [key |-> pc.UTCTimings.elems[k].SchemeIdUri,
                             value |-> pc.UTCTimings.elems[k].Value]])>>
         ELSE <<>>)
        \o (IF pc.LowLatencyDashMode THEN <<Arg("--low_latency_dash_mode=true")>> ELSE <<>>)
        \o (IF pc.StreamingMode = VOD THEN <<Arg("--generate_static_live_mpd")>> ELSE <<>>)
        \o <<Arg("--mpd_output"), PathArg(Join(outputLocation, "dash.mpd"))>>
   ELSE <<>>)
  \o
  (IF ContainsString(ManifestFormatListToStringList(pc.ManifestFormat), HLS)
   THEN <<Arg("--hls_playlist_type"),
          Arg(IF pc.StreamingMode = LIVE THEN "LIVE" ELSE "VOD"),
          Arg("--hls_master_playlist_output"),
          PathArg(Join(outputLocation, "hls.m3u8"))>>
   ELSE <<>>)

\* A packager node made with the pipeline config of the controller that Start
\* returned builds its command.
PackagerSetupManifest ==
  /\ startResult = "ok"
  /\ mState = "new"
  /\ mState' = "started"
  /\ mArgs' = setupManifestFormat(cnPipelineConfig, params.outputLocation)
  /\ UNCHANGED <<params, startResult, effects, cnPipelineConfig, tempDirs, cnNodes,
                 closedOn, secondStart>>
  /\ UNCHANGED otherThanCtl

\* ControllerNode.Close on the receiver of Start, or on the controller that
\* Start returned: os.RemoveAll(c.tempDir).
ControllerClose(c) ==
  /\ c \in {"receiver", "returned"}
  /\ c \notin closedOn
  /\ (c = "returned") => (startResult = "ok")
  /\ tempDirs' = tempDirs \ {c}
  /\ closedOn' = closedOn \cup {c}
  /\ UNCHANGED <<params, startResult, effects, cnPipelineConfig, mState, mArgs, cnNodes,
                 secondStart>>
  /\ UNCHANGED otherThanCtl

CtlInit ==
  /\ params \in ControllerParams
  /\ startResult = "none"
  /\ effects = <<>>
  /\ cnPipelineConfig = ZeroPipelineConfig
  /\ mState = "new"
  /\ mArgs = <<>>
  /\ tempDirs = {"receiver"}
  /\ cnNodes = {}
  /\ closedOn = {}
  /\ secondStart = "none"

\* The controller part at rest, for the specifications of the other parts.
CtlIdle ==
  /\ params = ZeroControllerParams
  /\ startResult = "none"
  /\ effects = <<>>
  /\ cnPipelineConfig = ZeroPipelineConfig
  /\ mState = "new"
  /\ mArgs = <<>>
  /\ tempDirs = {}
  /\ cnNodes = {}
  /\ closedOn = {}
  /\ secondStart = "none"

(***************************************************************************)
(* C10: when Start succeeds with low_latency_dash_mode set, DASH is in     *)
(* manifest_format and utc_timings is not empty, and the packager command  *)
(* built from that config holds --low_latency_dash_mode=true and a         *)
(* --utc_timings argument of at least one scheme=value pair.               *)
(***************************************************************************)
C10_LowLatencyFlags ==
  (startResult = "ok" /\ params.pipelineConfigDict.LowLatencyDashMode) =>
    /\ \E k \in DOMAIN params.pipelineConfigDict.ManifestFormat :
         params.pipelineConfigDict.ManifestFormat[k] = DASH
    /\ Len(params.pipelineConfigDict.UTCTimings.elems) >= 1
    /\ (mState = "started") =>
         /\ \E k \in DOMAIN mArgs : mArgs[k].name = "--low_latency_dash_mode=true"
         /\ \E k \in 1..(Len(mArgs) - 1) :
              /\ mArgs[k].name = "--utc_timings"
              /\ Len(mArgs[k + 1].pairs) >= 1

\* Start has succeeded for a low-latency config and the packager command is built.
C10_Witness ==
  /\ startResult = "ok"
  /\ params.pipelineConfigDict.LowLatencyDashMode
  /\ mState = "started"
  /\ \E k \in DOMAIN mArgs : mArgs[k].name = "--utc_timings"

(***************************************************************************)
(* C13: Start with an http: or https: output location fails when a cloud   *)
(* bucket URL is given, when the input config has a multi-period list or   *)
(* when segment_per_file is false; it then returns no controller and       *)
(* creates no nodes.                                                       *)
(***************************************************************************)
C13_HttpOutputRestrictions ==
  (/\ startResult # "none"
   /\ IsURL(params.outputLocation)
   /\ \/ params.bucketURL # ""
      \/ params.multiPeriod
      \/ ~params.pipelineConfigDict.SegmentPerFile) =>
    /\ startResult # "ok"
    /\ cnPipelineConfig = ZeroPipelineConfig
    /\ cnNodes = {}
    /\ mState = "new"

\* Start has rejected an HTTP output location that came with a cloud bucket.
C13_Witness ==
  /\ IsURL(params.outputLocation)
  /\ params.bucketURL # ""
  /\ startResult = "Cloud bucket upload is incompatible with HTTP PUT support."

\* The panics with which Start rejects an incoherent configuration.
IncoherentRejections ==
  {"Cloud bucket upload is incompatible with HTTP PUT support.",
   "Multiperiod input list support is incompatible with HTTP outputs.",
   "low_latency_dash_mode is only compatible with DASH outputs",
   "For low_latency_dash_mode, the utc_timings must be set."}

(***************************************************************************)
(* C14: when Start rejects an incoherent configuration, it has had no      *)
(* external effect yet: no access-check write to the bucket, no temp       *)
(* directory created, no output directory deleted.                         *)
(***************************************************************************)
C14_RejectsBeforeEffects ==
  (startResult \in IncoherentRejections) => (effects = <<>>)

(***************************************************************************)
(* C15: after NewControllerNode, Start and Close on the controller that    *)
(* Start returned no shaka-live- directory is left, and none is left when  *)
(* Start fails after creating one.                                         *)
(***************************************************************************)
C15_NoTempDirLeft ==
  /\ (startResult = "ok" /\ "returned" \in closedOn) => (tempDirs = {})
  /\ (startResult \notin {"none", "ok"}) => ("returned" \notin tempDirs)

(***************************************************************************)
(* C25: a second Start on a started controller, on the receiver of the     *)
(* first Start or on the controller it returned, fails with "Controller    *)
(* already started!" and makes no second temp directory.                   *)
(***************************************************************************)
C25_SecondStartFails ==
  (secondStart \notin {"none", "shaka-streamer-binaries was not found."}) =>
    /\ secondStart = "Controller already started!"
    /\ "second" \notin tempDirs

(***************************************************************************)
(* C26: with an output location that has a URL scheme, every path of the   *)
(* packager command (the segment paths of a stream descriptor,             *)
(* --mpd_output, --hls_master_playlist_output) is the output location      *)
(* unchanged, scheme:// included, followed by "/" and the sub-path.        *)
(***************************************************************************)
C26_UrlPathsKeepLocation ==
  (mState = "started" /\ params.outputLocation.scheme # "") =>
    /\ \A f \in {"audio_init.mp4", "audio_$Number$.m4s", "audio.mp4"} :
         buildPathLocation(params.outputLocation, f)
           = Location(params.outputLocation.scheme, params.outputLocation.slashes,
                      params.outputLocation.path \o <<f>>)
    /\ \A k \in DOMAIN mArgs :
         (mArgs[k].loc # NoLocation) =>
           /\ mArgs[k].loc.scheme = params.outputLocation.scheme
           /\ mArgs[k].loc.slashes = params.outputLocation.slashes
           /\ SubSeq(mArgs[k].loc.path, 1, Len(params.outputLocation.path))
                = params.outputLocation.path

(***************************************************************************)
(* Functions of the package, applied to an argument.                       *)
(*                                                                         *)
(* A specification of this part draws arg, applies one function to it and  *)
(* keeps what the call returned in ret; called names the function applied. *)
(***************************************************************************)
FnIdle ==
  /\ arg = <<>>
  /\ ret = <<>>
  /\ called = ""

\* The call of the function named f on arg has returned r.
Returns(f, r) ==
  /\ called = ""
  /\ called' = f
  /\ ret' = r
  /\ UNCHANGED arg
  /\ UNCHANGED otherThanFn

(***************************************************************************)
(* Loading PipelineConfig and InputConfig from YAML.                       *)
(*                                                                         *)
(* A document gives each key or leaves it out.  defaults.Set (package      *)
(* creasty/defaults) sets the fields that have a default tag and then      *)
(* calls the SetDefaults method of the struct.                             *)
(***************************************************************************)
MaxDocList == 2

\* streaming_mode: "" when the document has no such key.
\* segment_per_file, low_latency_dash_mode: "absent", "true" or "false".
PipelineDocs ==
  [kind : {"pipeline"},
   streaming_mode : {"", LIVE, VOD},
   segment_per_file : {"absent", "true", "false"},
   low_latency_dash_mode : {"absent", "true", "false"},
   manifest_format : {<<>>} \cup ManifestFormats]

\* inputs, multiperiod_inputs_list: the number of elements of the list in
\* the document, 0 also for a key that is left out.
InputDocs ==
  [kind : {"input"}, inputs : 0..MaxDocList, multiperiod_inputs_list : 0..MaxDocList]

\* The fields of PipelineConfig the loading looks at, as var p PipelineConfig.
ZeroLoadedPipeline ==
  [StreamingMode |-> "", SegmentPerFile |-> FALSE, LowLatencyDashMode |-> FALSE,
   ManifestFormat |-> <<>>]

ZeroInputConfig == [Inputs |-> 0, MultiPeriodInputsList |-> 0]

\* What a step of loading gives: the panic that ended it ("" for none) and
\* the struct.
Loaded(panic, val) == [panic |-> panic, val |-> val]

\* PipelineConfig.SetDefaults.
PipelineSetDefaults(p) ==
  LET q == [p EXCEPT !.ManifestFormat = IF @ = <<>> THEN <<DASH, HLS>> ELSE @]
  IN IF q.StreamingMode = LIVE /\ ~q.SegmentPerFile
     THEN Loaded("MalformedField SegmentPerFile", q)
     ELSE Loaded("", q)

\* defaults.Set(p) in PipelineConfig.UnmarshalYAML, line 529: the default
\* tags (segment_per_file and low_latency_dash_mode false), then SetDefaults.
PipelineDefaultsSet(p) == PipelineSetDefaults(p)

\* unmarshal((*plain)(p)): the keys of the document overwrite the fields.
PipelineUnmarshal(p, doc) ==
  [StreamingMode |-> IF doc.streaming_mode # "" THEN doc.streaming_mode
                     ELSE p.StreamingMode,
   SegmentPerFile |-> IF doc.segment_per_file = "absent" THEN p.SegmentPerFile
                      ELSE doc.segment_per_file = "true",
   LowLatencyDashMode |-> IF doc.low_latency_dash_mode = "absent"
                          THEN p.LowLatencyDashMode
                          ELSE doc.low_latency_dash_mode = "true",
   ManifestFormat |-> IF doc.manifest_format # <<>> THEN doc.manifest_format
                      ELSE p.ManifestFormat]

\* validate.Validate(p): streaming_mode has the tag empty=false.
PipelineValidate(p) ==
  IF p.StreamingMode = "" THEN "validate: StreamingMode is empty" ELSE ""

\* PipelineConfig.UnmarshalYAML into var p PipelineConfig.
PipelineUnmarshalYAML(doc) ==
  LET d == PipelineDefaultsSet(ZeroLoadedPipeline)
      u == PipelineUnmarshal(d.val, doc)
  IN IF d.panic # "" THEN d
     ELSE Loaded(PipelineValidate(u), u)

LoadPipelineConfig ==
  /\ arg.kind = "pipeline"
  /\ Returns("PipelineConfig.UnmarshalYAML", PipelineUnmarshalYAML(arg))

\* InputConfig.SetDefaults.
InputSetDefaults(i) ==
  LET hasInputs == i.Inputs > 0
      hasMultiPeriodInputsList == i.MultiPeriodInputsList > 0
  IN IF hasInputs /\ hasMultiPeriodInputsList THEN Loaded("ConflictingFields", i)
     ELSE IF ~hasInputs /\ ~hasMultiPeriodInputsList
          THEN Loaded("MissingRequiredExclusiveFields", i)
          ELSE Loaded("", i)

\* unmarshal((*plain)(i)).
InputUnmarshal(i, doc) ==
  [Inputs |-> IF doc.inputs > 0 THEN doc.inputs ELSE i.Inputs,
   MultiPeriodInputsList |-> IF doc.multiperiod_inputs_list > 0
                             THEN doc.multiperiod_inputs_list
                             ELSE i.MultiPeriodInputsList]

\* InputConfig.UnmarshalYAML into var i InputConfig: defaults.Set(i), which
\* calls SetDefaults, then unmarshal, then validate.Validate (no tags).
InputUnmarshalYAML(doc) ==
  LET d == InputSetDefaults(ZeroInputConfig)
  IN IF d.panic # "" THEN d
     ELSE Loaded("", InputUnmarshal(d.val, doc))

LoadInputConfig ==
  /\ arg.kind = "input"
  /\ Returns("InputConfig.UnmarshalYAML", InputUnmarshalYAML(arg))

(***************************************************************************)
(* C11: loading a PipelineConfig whose streaming_mode is live and whose    *)
(* segment_per_file is false or absent fails with a malformed-field error  *)
(* on SegmentPerFile; no loaded PipelineConfig is live with SegmentPerFile *)
(* false.                                                                  *)
(***************************************************************************)
C11_LiveNeedsSegmentPerFile ==
  (called = "PipelineConfig.UnmarshalYAML") =>
    /\ (arg.streaming_mode = LIVE /\ arg.segment_per_file # "true")
         => (ret.panic = "MalformedField SegmentPerFile")
    /\ (ret.panic = "") => ~(ret.val.StreamingMode = LIVE /\ ~ret.val.SegmentPerFile)

(***************************************************************************)
(* C12: loading an InputConfig succeeds exactly when one of inputs and     *)
(* multiperiod_inputs_list is not empty; with both it fails with           *)
(* conflicting fields, with neither with missing required exclusive        *)
(* fields.                                                                 *)
(***************************************************************************)
C12_ExactlyOneInputList ==
  (called = "InputConfig.UnmarshalYAML") =>
    LET hasInputs == arg.inputs > 0
        hasMulti == arg.multiperiod_inputs_list > 0
    IN /\ (hasInputs /\ hasMulti) => (ret.panic = "ConflictingFields")
       /\ (~hasInputs /\ ~hasMulti) => (ret.panic = "MissingRequiredExclusiveFields")
       /\ (hasInputs # hasMulti) => (ret.panic = "")

(***************************************************************************)
(* CheckCommandVersion.  The argument is the minimum version and what the  *)
(* command gave: it failed, its output holds no version, or the version    *)
(* the regular expression finds, split at the dots (two pieces or more).   *)
(***************************************************************************)
MaxVersionLen == 3

\* The numbers a piece of a version is drawn from.
VersionPieces == {0, 1, 2, 4, 6, 212}

\* The minimums ControllerNode.Start passes.
MinimumVersions == {<<4, 1>>, <<2, 6, 1>>, <<212, 0, 0>>}

Versions == UNION {[1..n -> VersionPieces] : n \in 2..MaxVersionLen}

VersionArgs ==
  [kind : {"CheckCommandVersion"}, minimumVersion : MinimumVersions,
   output : {"version"}, version : Versions]
  \cup [kind : {"CheckCommandVersion"}, minimumVersion : MinimumVersions,
        output : {"fails", "no version"}, version : {<<>>}]

\* What a call gives back: a runtime panic, or the Problem of the
\* VersionError ("" for nil).
Checked(panic, problem) == [panic |-> panic, Problem |-> problem]

\* v[k] of a Go slice (k from 0) can be read.
InRange(v, k) == k < Len(v)

\* Line 198, with the order in which Go evaluates the operands: the result,
\* or the panic of an index that is out of range.
OutOfDate(version, minimumVersion) ==
  LET v(k) == version[k + 1]
      m(k) == minimumVersion[k + 1]
  IN IF v(0) < m(0) THEN "true"
     ELSE IF v(0) = m(0) /\ v(1) < m(1) THEN "true"
     ELSE IF v(0) = m(0) /\ v(1) = m(1)
          THEN (IF ~InRange(version, 2) \/ ~InRange(minimumVersion, 2)
                THEN "index out of range"
                ELSE IF v(2) < m(2) THEN "true" ELSE "false")
          ELSE "false"

\* CheckCommandVersion, lines 167-206.
CheckCommandVersion(a) ==
  IF a.output = "fails" THEN Checked("", "not found")
  ELSE IF a.output = "no version" THEN Checked("", "version could not be parsed")
  ELSE LET r == OutOfDate(a.version, a.minimumVersion)
       IN IF r = "index out of range" THEN Checked(r, "")
          ELSE IF r = "true" THEN Checked("", "out of date")
          ELSE Checked("", "")

CallCheckCommandVersion ==
  /\ arg.kind = "CheckCommandVersion"
  /\ Returns("CheckCommandVersion", CheckCommandVersion(arg))

\* Piece k (from 1) of a version, 0 where the version has no such piece.
Piece(v, k) == IF k <= Len(v) THEN v[k] ELSE 0

\* Version v is below version m, piece by piece from the first.
Below(v, m) ==
  \E k \in 1..MaxVersionLen + 1 :
    /\ Piece(v, k) < Piece(m, k)
    /\ \A h \in 1..(k - 1) : Piece(v, h) = Piece(m, h)

(***************************************************************************)
(* C17: for the minimums Start passes and a reported version of two or     *)
(* three pieces, CheckCommandVersion returns nil when the version is at    *)
(* least the minimum and an out-of-date VersionError when it is below,     *)
(* without a runtime failure; FFmpeg 4.1, 4.1.0 and 4.1.3 are accepted.    *)
(***************************************************************************)
C17_VersionGate ==
  (called = "CheckCommandVersion" /\ arg.output = "version") =>
    /\ ret.panic = ""
    /\ ret.Problem = (IF Below(arg.version, arg.minimumVersion) THEN "out of date" ELSE "")

(***************************************************************************)
(* probe and IsPresent.  The argument is an input and what ffprobe does    *)
(* when it is run for it: whether the command fails, and the lines of its  *)
(* output.                                                                 *)
(***************************************************************************)
FILE == "file"
LOOPED_FILE == "looped_file"
WEBCAM == "webcam"
MICROPHONE == "microphone"
EXTERNAL_COMMAND == "external_command"

InputTypes == {FILE, LOOPED_FILE, WEBCAM, MICROPHONE, EXTERNAL_COMMAND}

TYPES_WE_CANT_PROBE == {EXTERNAL_COMMAND}

\* The outputs of ffprobe for stream=index: nothing, a blank line, the index,
\* and the index twice with an empty line in between.
ProbeOutputs == {<<>>, <<"">>, <<"0">>, <<"0", "", "0">>}

ProbeArgs ==
  [kind : {"IsPresent"}, InputType : InputTypes, MediaType : {AUDIO, VIDEO, TEXT},
   fails : BOOLEAN, output : ProbeOutputs]

RECURSIVE TrimSpace(_)
\* strings.TrimSpace on the lines of an output: the blank lines at both ends
\* go.
TrimSpace(lines) ==
  IF lines = <<>> THEN <<>>
  ELSE IF Head(lines) = "" THEN TrimSpace(Tail(lines))
  ELSE IF lines[Len(lines)] = "" THEN TrimSpace(SubSeq(lines, 1, Len(lines) - 1))
  ELSE lines

\* probe: the string and the error it returns.
probe(i) ==
  IF i.InputType \in TYPES_WE_CANT_PROBE THEN [s |-> "", err |-> "not supported"]
  ELSE IF i.fails THEN [s |-> "", err |-> "error running command"]
  ELSE IF TrimSpace(i.output) = <<>> THEN [s |-> "", err |-> ""]
  ELSE [s |-> TrimSpace(i.output)[1], err |-> ""]

\* IsPresent.
IsPresent(i) == probe(i).err = ""

\* Input.SetDefaults, lines 270-273: the panic of an input that is not
\* present.
CheckPresent(i) == IF ~IsPresent(i) THEN "InputNotFound" ELSE ""

CallIsPresent ==
  /\ arg.kind = "IsPresent"
  /\ Returns("IsPresent", [present |-> IsPresent(arg), panic |-> CheckPresent(arg)])

(***************************************************************************)
(* C18: IsPresent is true for an input type that cannot be probed, true    *)
(* for a probeable input whose stream=index probe gives a value that is    *)
(* not empty, and false for a probeable input whose probe fails or gives   *)
(* nothing; the input fails with input-not-found exactly when IsPresent is *)
(* false.                                                                  *)
(***************************************************************************)
C18_IsPresent ==
  (called = "IsPresent") =>
    LET probeable == arg.InputType # EXTERNAL_COMMAND
        value == \E k \in DOMAIN arg.output : arg.output[k] # ""
    IN /\ ~probeable => ret.present
       /\ (probeable /\ ~arg.fails /\ value) => ret.present
       /\ (probeable /\ (arg.fails \/ ~value)) => ~ret.present
       /\ (ret.panic = "InputNotFound") <=> ~ret.present

(***************************************************************************)
(* GetResolution.  The argument is the width, the height and the frame     *)
(* rate ffprobe measured for a video input, or a probe that fails or gives *)
(* nothing.                                                                *)
(***************************************************************************)
\* NewVideoResolution(maxWidth, maxHeight, maxFrameRate, bitrates): the
\* bounds of a bucket.
NewVideoResolution(maxWidth, maxHeight, maxFrameRate) ==
  [MaxWidth |-> maxWidth, MaxHeight |-> maxHeight, MaxFrameRate |-> maxFrameRate]

\* The keys of DefaultVideoResolutions, in the order of the declaration.
VideoResolutionNames ==
  <<"144p", "240p", "360p", "480p", "576p", "720p", "720p-hfr", "1080p", "1080p-hfr",
    "1440p", "1440p-hfr", "4k", "4k-hfr", "8k", "8k-hfr">>

\* DefaultVideoResolutions: a map, which has no order.
DefaultVideoResolutions ==
  [key \in {VideoResolutionNames[k] : k \in DOMAIN VideoResolutionNames} |->
     CASE key = "144p" -> NewVideoResolution(256, 144, 30)
       [] key = "240p" -> NewVideoResolution(426, 240, 30)
       [] key = "360p" -> NewVideoResolution(640, 360, 30)
       [] key = "480p" -> NewVideoResolution(854, 480, 30)
       [] key = "576p" -> NewVideoResolution(1024, 576, 30)
       [] key = "720p" -> NewVideoResolution(1280, 720, 30)
       [] key = "720p-hfr" -> NewVideoResolution(1280, 720, 0)
       [] key = "1080p" -> NewVideoResolution(1920, 1080, 30)
       [] key = "1080p-hfr" -> NewVideoResolution(1920, 1080, 0)
       [] key = "1440p" -> NewVideoResolution(2560, 1440, 30)
       [] key = "1440p-hfr" -> NewVideoResolution(2560, 1440, 0)
       [] key = "4k" -> NewVideoResolution(4096, 2160, 30)
       [] key = "4k-hfr" -> NewVideoResolution(4096, 2160, 0)
       [] key = "8k" -> NewVideoResolution(8192, 4320, 30)
       [] OTHER -> NewVideoResolution(8192, 4320, 0)]

\* What ffprobe measures.
Widths == {256, 1280, 1920, 8192, 10000}
Heights == {144, 720, 1080, 4320}
FrameRates == {0, 24, 30, 60}

ResolutionArgs ==
  [kind : {"GetResolution"}, probe : {"ok"}, width : Widths, height : Heights,
   FrameRate : FrameRates]
  \cup [kind : {"GetResolution"}, probe : {"fails", "nothing"}, width : {0}, height : {0},
        FrameRate : FrameRates]

\* Line 162: the measured values fit into the bucket.
Fits(i, bucket) ==
  /\ i.width <= bucket.MaxWidth
  /\ i.height <= bucket.MaxHeight
  /\ i.FrameRate <= bucket.MaxFrameRate

\* What GetResolution gives back: a runtime panic, or the key ("" for nil).
Resolved(panic, key) == [panic |-> panic, key |-> key]

\* The buckets the measured values fit into.
Fitting(i) ==
  {key \in DOMAIN DefaultVideoResolutions : Fits(i, DefaultVideoResolutions[key])}

\* The keys range DefaultVideoResolutions can come to first among the buckets
\* that fit: Go walks a map in an order that is not specified.  "" stands
\* for the end of the loop.
FirstInRange(i) == IF Fitting(i) = {} THEN {""} ELSE Fitting(i)

\* GetResolution, where first is the key of the bucket the loop returns at.
GetResolution(i, first) ==
  IF i.probe = "fails" THEN Resolved("", "")
  ELSE IF i.probe = "nothing" THEN Resolved("index out of range", "")
  ELSE Resolved("", first)

CallGetResolution ==
  /\ arg.kind = "GetResolution"
  /\ \E first \in FirstInRange(arg) : Returns("GetResolution", GetResolution(arg, first))

\* The first bucket, in the order of the declaration, that bounds the
\* measured values; "" when there is none.
FirstBucket(i) ==
  IF \E k \in DOMAIN VideoResolutionNames :
       Fits(i, DefaultVideoResolutions[VideoResolutionNames[k]])
  THEN VideoResolutionNames[
         CHOOSE k \in DOMAIN VideoResolutionNames :
           /\ Fits(i, DefaultVideoResolutions[VideoResolutionNames[k]])
           /\ \A h \in 1..(k - 1) :
                ~Fits(i, DefaultVideoResolutions[VideoResolutionNames[h]])]
  ELSE ""

(***************************************************************************)
(* C19: for a measured width, height and frame rate GetResolution gives    *)
(* the first (smallest) default bucket whose bounds hold all three, the    *)
(* same on every call: 1920x1080 at 30 fps is 1080p, 1280x720 at 24 fps is *)
(* 720p.                                                                   *)
(***************************************************************************)
C19_FirstBucket ==
  (called = "GetResolution" /\ arg.probe = "ok") =>
    /\ ret.panic = ""
    /\ ret.key = FirstBucket(arg)
    /\ (arg.width = 1920 /\ arg.height = 1080 /\ arg.FrameRate = 30) => ret.key = "1080p"
    /\ (arg.width = 1280 /\ arg.height = 720 /\ arg.FrameRate = 24) => ret.key = "720p"

(***************************************************************************)
(* Input.GetInputArgs.  The argument is an input and runtime.GOOS of the    *)
(* host the call runs on.                                                  *)
(***************************************************************************)
\* Values of runtime.GOOS: the three hosts of the table, and one more.
GOOSValues == {"linux", "darwin", "windows", "freebsd"}

InputArgsArgs ==
  [kind : {"GetInputArgs"}, InputType : InputTypes, MediaType : {AUDIO, VIDEO, TEXT},
   Name : Names, GOOS : GOOSValues]

\* The table of GetInputArgs: input type, then platform name.
argsMatrix ==
  [t \in {WEBCAM, MICROPHONE} |->
     IF t = WEBCAM
     THEN [Linux |-> <<"-f", "video4linux2">>,
           Darwin |-> <<"-f", "avfoundation", "-framerate", "30">>,
           Windows |-> <<"-f", "dshow">>]
     ELSE [Linux |-> <<"-f", "pulse">>,
           Darwin |-> <<"-f", "avfoundation">>,
           Windows |-> <<"-f", "dshow">>]]

\* GetInputArgs on a host whose runtime.GOOS is goos: the arguments, or the
\* panic.  A map read of a key that is not in the map gives nil.
GetInputArgs(i, goos) ==
  IF i.InputType \notin DOMAIN argsMatrix THEN [args |-> <<>>, panic |-> ""]
  ELSE IF goos \notin DOMAIN argsMatrix[i.InputType]
       THEN [args |-> <<>>, panic |-> "is not supported on this platform!"]
       ELSE [args |-> argsMatrix[i.InputType][goos], panic |-> ""]

CallGetInputArgs ==
  /\ arg.kind = "GetInputArgs"
  /\ Returns("GetInputArgs", GetInputArgs(arg, arg.GOOS))

(***************************************************************************)
(* C28: GetInputArgs returns the table entry of the host: on Linux         *)
(* -f video4linux2 for a webcam and -f pulse for a microphone, on macOS    *)
(* -f avfoundation -framerate 30 and -f avfoundation, on Windows -f dshow  *)
(* for both; the empty list for the other input types; it fails as         *)
(* unsupported only on a host outside these three.                         *)
(***************************************************************************)
C28_InputArgsOfHost ==
  (called = "GetInputArgs") =>
    LET device == arg.InputType \in {WEBCAM, MICROPHONE}
        webcam == arg.InputType = WEBCAM
    IN /\ ~device => (ret = [args |-> <<>>, panic |-> ""])
       /\ (ret.panic # "") <=> (device /\ arg.GOOS \notin {"linux", "darwin", "windows"})
       /\ (device /\ arg.GOOS = "linux") =>
            ret.args = (IF webcam THEN <<"-f", "video4linux2">> ELSE <<"-f", "pulse">>)
       /\ (device /\ arg.GOOS = "darwin") =>
            ret.args = (IF webcam THEN <<"-f", "avfoundation", "-framerate", "30">>
                        ELSE <<"-f", "avfoundation">>)
       /\ (device /\ arg.GOOS = "windows") => (ret.args = <<"-f", "dshow">>)

(***************************************************************************)
(* GetFFmpegCodecString.  The argument is an output stream plan's codec and *)
(* the hwaccel API of the pipeline config.                                 *)
(***************************************************************************)
CodecStringArgs ==
  [kind : {"GetFFmpegCodecString"},
   Codec : AudioCodecs \cup VideoCodecs \cup {NewVideoCodec("hw:h264"), NilCodec},
   Type : {AUDIO, VIDEO, TEXT}, SkipTranscoding : BOOLEAN, hwaccelAPI : HWAccelAPIs]

\* AudioCodec.GetFFmpegCodecString and VideoCodec.GetFFmpegCodecString.
GetFFmpegCodecString(c, hwaccelApi) ==
  IF c.type = "AudioCodec"
  THEN (IF c.Name = OPUS THEN "libopus" ELSE c.Name)
  ELSE (IF c.HWAcc THEN c.Name \o "_" \o hwaccelApi ELSE c.Name)

\* OutputStream.GetFFmpegCodecString.
CallGetFFmpegCodecString ==
  /\ arg.kind = "GetFFmpegCodecString"
  /\ Returns("GetFFmpegCodecString",
             IF arg.Codec.type # "nil"
             THEN GetFFmpegCodecString(arg.Codec, arg.hwaccelAPI) ELSE "")

\* A codec name without the prefix hw:.
WithoutPrefix(name) ==
  CASE name = "hw:h264" -> "h264" [] name = "hw:vp9" -> "vp9" [] OTHER -> name

(***************************************************************************)
(* C29: a video codec configured with the prefix hw: is hardware-          *)
(* accelerated and GetFFmpegCodecString gives its name without the prefix, *)
(* "_" and the hwaccel API; a video codec without the prefix gives its     *)
(* bare name; the audio codec opus gives libopus.                          *)
(***************************************************************************)
C29_CodecString ==
  (called = "GetFFmpegCodecString" /\ arg.Codec.type # "nil") =>
    LET c == arg.Codec
        prefixed == c.type = "VideoCodec" /\ WithoutPrefix(c.Name) # c.Name
    IN /\ prefixed =>
            /\ c.HWAcc
            /\ ret = WithoutPrefix(c.Name) \o "_" \o arg.hwaccelAPI
       /\ (c.type = "VideoCodec" /\ ~prefixed) => (ret = c.Name)
       /\ (c.type = "AudioCodec" /\ c.Name = OPUS) => (ret = "libopus")

(***************************************************************************)
(* NewMediaPlaylist on an #EXT-X-MAP line.  The argument is the line, as   *)
(* its attributes: the value of URI as it stands in the file, in its       *)
(* double quotes, the value of BYTERANGE, and the period directory         *)
(* relative to the output directory.  A string is a sequence of            *)
(* characters.                                                             *)
(***************************************************************************)
MaxUriLen == 3

UriChars == {"i", ",", "4"}

QUOTE == "\""

UriValues == UNION {[1..n -> UriChars] : n \in 1..MaxUriLen}

NoAttribute == [present |-> FALSE, raw |-> <<>>]
Attribute(raw) == [present |-> TRUE, raw |-> raw]

\* Puts a string in double quotes.
quote(str) == <<QUOTE>> \o str \o <<QUOTE>>

MapLines ==
  [kind : {"NewMediaPlaylist"},
   URI : {NoAttribute} \cup {Attribute(quote(v)) : v \in UriValues},
   BYTERANGE : {NoAttribute, Attribute(<<"7", "@", "0">>), Attribute(quote(<<"7", "@", "0">>))},
   periodDir : {"period_1"}]

RECURSIVE Trim(_)
\* strings.Trim(value, "\""): the double quotes at both ends go.
Trim(value) ==
  IF value = <<>> THEN <<>>
  ELSE IF Head(value) = QUOTE THEN Trim(Tail(value))
  ELSE IF value[Len(value)] = QUOTE THEN Trim(SubSeq(value, 1, Len(value) - 1))
  ELSE value

\* extractAttributes: each KEY=VALUE of the line, with the value trimmed.  A
\* key that is not on the line is not in the map.
extractAttributes(line) ==
  [key \in {"URI", "BYTERANGE"} |->
     IF line[key].present THEN [ok |-> TRUE, v |-> Trim(line[key].raw)]
     ELSE [ok |-> FALSE, v |-> <<>>]]

\* unquote: str[1 : len(str)-1], a slice out of range for a string shorter
\* than two characters.
unquote(str) ==
  IF Len(str) < 2 THEN [panic |-> TRUE, s |-> <<>>]
  ELSE [panic |-> FALSE, s |-> SubSeq(str, 2, Len(str) - 1)]

\* NewMediaPlaylist, lines 136-145: the line as it is added to Content, the
\* URI as the period directory and the path joined to it.
EmitMap(line) ==
  LET attribs == extractAttributes(line)
      u == unquote(attribs["URI"].v)
  IN IF u.panic THEN [panic |-> TRUE, dir |-> "", uri |-> <<>>, byterange |-> NoAttribute]
     ELSE [panic |-> FALSE, dir |-> line.periodDir, uri |-> quote(u.s),
           byterange |-> IF attribs["BYTERANGE"].ok
                         THEN Attribute(attribs["BYTERANGE"].v) ELSE NoAttribute]

CallNewMediaPlaylist ==
  /\ arg.kind = "NewMediaPlaylist"
  /\ Returns("NewMediaPlaylist", [line |-> EmitMap(arg), attribs |-> extractAttributes(arg)])

(***************************************************************************)
(* C30: NewMediaPlaylist emits every #EXT-X-MAP line with the complete     *)
(* original URI value, no character lost, after the period directory and   *)
(* in one pair of double quotes, and with BYTERANGE exactly when the line  *)
(* had one; extractAttributes maps every key of the line to its value.     *)
(***************************************************************************)
C30_MapUriComplete ==
  (called = "NewMediaPlaylist" /\ arg.URI.present) =>
    LET original == SubSeq(arg.URI.raw, 2, Len(arg.URI.raw) - 1)
    IN /\ ~ret.line.panic
       /\ ret.line.dir = arg.periodDir
       /\ ret.line.uri = quote(original)
       /\ ret.line.byterange.present <=> arg.BYTERANGE.present
       /\ ret.attribs["URI"] = [ok |-> TRUE, v |-> original]
       /\ ret.attribs["BYTERANGE"].ok <=> arg.BYTERANGE.present
       /\ arg.BYTERANGE.present => (ret.attribs["BYTERANGE"].v = <<"7", "@", "0">>)

(***************************************************************************)
(* The specifications.                                                     *)
(***************************************************************************)
InitNode == NodeInit /\ CloudIdle /\ PlanIdle /\ ConcatIdle /\ CtlIdle /\ FnIdle

NextNode ==
  \/ \E n \in Nodes : CreateProcess(n)
  \/ \E n \in Nodes : \E how \in {"zombie0", "zombie1", "zombieSig"} : ProcExit(n, how)
  \/ \E n \in Nodes : StopTerm(n)
  \/ \E n \in Nodes : StopGrace(n)
  \/ \E n \in Nodes : StopKill(n)
  \/ ControllerStop

SpecNode == InitNode /\ [][NextNode]_vars

InitCloud == CloudInit /\ NodeIdle /\ PlanIdle /\ ConcatIdle /\ CtlIdle /\ FnIdle

NextCloud ==
  \/ PackagerWriteSegment
  \/ \E f \in ManifestFiles : PackagerCreateManifest(f)
  \/ \E f \in ManifestFiles : \E lo \in 1..MaxSeg : PackagerWriteManifest(f, lo)
  \/ \E s \in 1..MaxSeg : PackagerDeleteSegment(s)
  \/ CloudStart
  \/ CloudStop
  \/ UploadGlob
  \/ UploadCapture
  \/ SegmentSyncStart
  \/ SegmentSyncEnd
  \/ ManifestSyncStart
  \/ ManifestSyncEnd

SpecCloud == InitCloud /\ [][NextCloud]_vars

InitPlan == PlanInit /\ NodeIdle /\ CloudIdle /\ ConcatIdle /\ CtlIdle /\ FnIdle

NextPlan ==
  \/ \E i \in DOMAIN inputs : \E u \in Uuids :
       \E c \in DefaultAudioCodecs : \E l \in PlanChannelLayouts :
         NewAudioOutputStream(i, c, l, u)
  \/ \E i \in DOMAIN inputs : \E u \in Uuids :
       \E c \in DefaultVideoCodecs : \E r \in PlanResolutions :
         NewVideoOutputStream(i, c, r, u)
  \/ \E i \in DOMAIN inputs : \E u \in Uuids : \E skip \in BOOLEAN :
        NewTextOutputStream(i, skip, u)
  \/ \E api \in HWAccelAPIs : TranscoderStart(api)
  \/ \E pn \in DefaultPackagerNodes : PackagerStart(pn)

SpecPlan == InitPlan /\ [][NextPlan]_vars

InitHwaccel == InitPlan

NextHwaccel ==
  \/ \E i \in DOMAIN inputs : \E u \in Uuids :
       \E c \in DefaultVideoCodecs \cup HardwareCodecs : \E r \in PlanResolutions :
         NewVideoOutputStream(i, c, r, u)
  \/ \E api \in HWAccelAPIs : TranscoderStart(api)

SpecHwaccel == InitHwaccel /\ [][NextHwaccel]_vars

InitStream ==
  /\ inputs \in [1..1 -> StreamInputs]
  /\ outputs = <<>>
  /\ fifos = {}
  /\ tState = "new"
  /\ tArgs = <<>>
  /\ pState = "new"
  /\ pArgs = <<>>
  /\ pnConfig = NoPackagerNode
  /\ planFault = FALSE
  /\ NodeIdle /\ CloudIdle /\ ConcatIdle /\ CtlIdle /\ FnIdle

NextStream ==
  \/ \E i \in DOMAIN inputs : \E u \in Uuids :
       \E c \in AudioCodecs : \E l \in AudioChannelLayouts : NewAudioOutputStream(i, c, l, u)
  \/ \E i \in DOMAIN inputs : \E u \in Uuids :
       \E c \in VideoCodecs : \E r \in VideoResolutions : NewVideoOutputStream(i, c, r, u)
  \/ \E i \in DOMAIN inputs : \E u \in Uuids : \E skip \in BOOLEAN :
        NewTextOutputStream(i, skip, u)
  \/ \E pn \in PackagerNodes : PackagerStart(pn)

SpecStream == InitStream /\ [][NextStream]_vars

InitConcat == ConcatInit /\ NodeIdle /\ CloudIdle /\ PlanIdle /\ CtlIdle /\ FnIdle

NextConcat ==
  \/ NewPeriodConcatNode
  \/ \E i \in DOMAIN pkStatus : \E st \in {Finished, Errored} : PackagerEnds(i, st)
  \/ ThreadSinglePass

SpecConcat == InitConcat /\ [][NextConcat]_vars

InitCtl == CtlInit /\ NodeInit /\ CloudIdle /\ PlanIdle /\ ConcatIdle /\ FnIdle

NextCtl ==
  \/ \E found, versionsOk, accessOk \in BOOLEAN :
        ControllerStart(found, versionsOk, accessOk)
  \/ PackagerSetupManifest
  \/ \E c \in {"receiver", "returned"} : ControllerClose(c)
  \/ \E c \in {"receiver", "returned"} : \E found, versionsOk, accessOk \in BOOLEAN :
        ControllerStartAgain(c, found, versionsOk, accessOk)

SpecCtl == InitCtl /\ [][NextCtl]_vars

InitLoad ==
  /\ arg \in PipelineDocs \cup InputDocs
  /\ ret = <<>>
  /\ called = ""
  /\ NodeIdle /\ CloudIdle /\ PlanIdle /\ ConcatIdle /\ CtlIdle

NextLoad ==
  \/ LoadPipelineConfig
  \/ LoadInputConfig

SpecLoad == InitLoad /\ [][NextLoad]_vars


InitVersion ==
  /\ arg \in VersionArgs
  /\ ret = <<>>
  /\ called = ""
  /\ NodeIdle /\ CloudIdle /\ PlanIdle /\ ConcatIdle /\ CtlIdle

NextVersion == CallCheckCommandVersion

SpecVersion == InitVersion /\ [][NextVersion]_vars


InitProbe ==
  /\ arg \in ProbeArgs
  /\ ret = <<>>
  /\ called = ""
  /\ NodeIdle /\ CloudIdle /\ PlanIdle /\ ConcatIdle /\ CtlIdle

NextProbe == CallIsPresent

SpecProbe == InitProbe /\ [][NextProbe]_vars


InitResolution ==
  /\ arg \in ResolutionArgs
  /\ ret = <<>>
  /\ called = ""
  /\ NodeIdle /\ CloudIdle /\ PlanIdle /\ ConcatIdle /\ CtlIdle

NextResolution == CallGetResolution

SpecResolution == InitResolution /\ [][NextResolution]_vars

InitInputArgs ==
  /\ arg \in InputArgsArgs
  /\ ret = <<>>
  /\ called = ""
  /\ NodeIdle /\ CloudIdle /\ PlanIdle /\ ConcatIdle /\ CtlIdle

NextInputArgs == CallGetInputArgs

SpecInputArgs == InitInputArgs /\ [][NextInputArgs]_vars


InitCodecString ==
  /\ arg \in CodecStringArgs
  /\ ret = <<>>
  /\ called = ""
  /\ NodeIdle /\ CloudIdle /\ PlanIdle /\ ConcatIdle /\ CtlIdle

NextCodecString == CallGetFFmpegCodecString

SpecCodecString == InitCodecString /\ [][NextCodecString]_vars


InitMediaPlaylist ==
  /\ arg \in MapLines
  /\ ret = <<>>
  /\ called = ""
  /\ NodeIdle /\ CloudIdle /\ PlanIdle /\ ConcatIdle /\ CtlIdle

NextMediaPlaylist == CallNewMediaPlaylist

SpecMediaPlaylist == InitMediaPlaylist /\ [][NextMediaPlaylist]_vars


====
